---------------------------- MODULE Spec2Model ----------------------------
(***************************************************************************)
(* A model of the recipe catalog engine of alert-new/recipes: the recipe   *)
(* registry and URL dispatch (index.ts), the validator (validate.ts), and  *)
(* the extraction routines of the bundled recipes (recipes/*.ts).          *)
(*                                                                         *)
(* The library is a set of functions over an immutable registry, so every  *)
(* specification below is a call machine: `call` holds the operation and   *)
(* its inputs, `ret` its result.  An extraction routine is run stage by    *)
(* stage: `pc` is the stage the routine is about to run and `data` the     *)
(* field map it has built so far.                                          *)
(***************************************************************************)
EXTENDS Integers, Sequences, FiniteSets, TLC

VARIABLES call, ret, pc, data

vars == <<call, ret, pc, data>>

(***************************************************************************)
(* URL strings.  A URL string is modelled by its parts: the text is        *)
(*   scheme \o sub \o host \o "/" \o seg1 \o "/" \o seg2 ... [\o "/"]      *)
(* where `slash` says whether the text ends in "/" and a URL without path  *)
(* and without slash is scheme \o sub \o host.  The regular expressions of *)
(* the recipes are translated to predicates over these parts.              *)
(***************************************************************************)

\* Bound: the longest path, in segments, of the URLs drawn as inputs.
MaxSegs == 3

Schemes == {"https://", "ftp://"}

Subs == {"", "www."}

Hosts == {"amazon.com", "ebay.com", "github.com", "npmjs.com", "reddit.com",
          "x.com", "youtube.com", "news.ycombinator.com", "example.com"}

Segs == {"itm", "package", "r", "comments", "status", "item", "123", "amazon.com"}

RECURSIVE PathsUpTo(_)
PathsUpTo(n) ==
    IF n = 0 THEN {<<>>}
    ELSE LET shorter == PathsUpTo(n - 1)
         IN  shorter \cup {Append(p, s) : p \in {q \in shorter : Len(q) = n - 1}, s \in Segs}

Urls == [scheme : Schemes, sub : Subs, host : Hosts,
         path : PathsUpTo(MaxSegs), slash : BOOLEAN]

\* The maximal "/"-free pieces of the URL text after the scheme.
UrlPieces(u) == {u.sub \o u.host} \cup {u.path[i] : i \in 1..Len(u.path)}

\* The n-th path segment exists and is followed by "/" in the text
\* (n = 0: the host is followed by "/").
SlashAfter(u, n) == Len(u.path) > n \/ (Len(u.path) = n /\ u.slash)

\* ^https?:\/\/(www\.)?
HttpWwwPrefix(u) == u.scheme \in {"https://", "http://"} /\ u.sub \in {"", "www."}

AmazonTlds == {"com", "co.uk", "de", "fr", "es", "it", "ca", "com.au", "co.jp", "in",
               "com.mx", "com.br", "nl", "se", "pl", "be", "sg", "ae", "sa", "eg", "com.tr"}

\* A piece in which /amazon\.(com|co\.uk|...)/ finds a match.
AmazonPieces == {"amazon." \o t : t \in AmazonTlds} \cup {"www.amazon." \o t : t \in AmazonTlds}

EbayTlds == {"com", "co.uk", "de", "fr", "ca", "com.au", "it", "es"}

\* The segment begins with a decimal digit (\d+).
BeginsWithDigit(seg) ==
    Len(seg) > 0 /\ SubSeq(seg, 1, 1) \in {"0", "1", "2", "3", "4", "5", "6", "7", "8", "9"}

\* (item|front|news|newest|best)
HnSections == {"item", "front", "news", "newest", "best"}

\* The segment begins with one of the words.
BeginsWithAny(seg, words) ==
    \E w \in words : Len(seg) >= Len(w) /\ SubSeq(seg, 1, Len(w)) = w

\* RegExp.prototype.test of the `match` pattern of recipe `slug` on URL u.
RegExpTest(slug, u) ==
    CASE slug = "amazon" ->
            \E p \in UrlPieces(u) : p \in AmazonPieces
      [] slug = "ebay" ->
            /\ HttpWwwPrefix(u)
            /\ u.host \in {"ebay." \o t : t \in EbayTlds}
            /\ SlashAfter(u, 1) /\ u.path[1] = "itm"
      [] slug = "github" ->
            /\ HttpWwwPrefix(u)
            /\ u.host = "github.com"
            /\ Len(u.path) = 2
      [] slug = "npm" ->
            /\ HttpWwwPrefix(u)
            /\ u.host = "npmjs.com"
            /\ SlashAfter(u, 1) /\ u.path[1] = "package"
      [] slug = "reddit" ->
            /\ u.scheme \in {"https://", "http://"}
            /\ u.sub \in {"", "www.", "old.", "new."}
            /\ u.host = "reddit.com"
            /\ SlashAfter(u, 3) /\ u.path[1] = "r" /\ u.path[3] = "comments"
      [] slug = "twitter" ->
            /\ HttpWwwPrefix(u)
            /\ u.host \in {"twitter.com", "x.com"}
            /\ Len(u.path) >= 3 /\ u.path[2] = "status" /\ BeginsWithDigit(u.path[3])
      [] slug = "youtube" ->
            /\ HttpWwwPrefix(u)
            /\ u.host \in {"youtube.com", "youtu.be"}
            /\ SlashAfter(u, 0)
      [] slug = "hackernews" ->
            /\ HttpWwwPrefix(u)
            /\ u.host = "news.ycombinator.com"
            /\ Len(u.path) >= 1 /\ BeginsWithAny(u.path[1], HnSections)
      [] OTHER -> FALSE

(***************************************************************************)
(* The registry (index.ts).  A recipe is a record; `match` is a RegExp or  *)
(* a predicate function.                                                   *)
(***************************************************************************)

\* The bundled recipes.  A URL is written as its parts (scheme, subdomain, host,
\* path segments, trailing slash); a character outside ASCII is written "*".
\* amazonRecipe: the attributes the registry, the validator and toClientRecipe read.
\* match: /amazon\.(com|co\.uk|de|fr|es|it|ca|com\.au|co\.jp|in|com\.mx|com\.br|nl|se|pl|be|sg|ae|sa|eg|com\.tr)/i
amazonRecipe ==
    [meta |->
        [slug |-> "amazon",
         name |-> "Amazon Product",
         description |-> "Track price drops, stock changes, and deals on Amazon products",
         icon |-> "https://www.amazon.com/favicon.ico",
         category |-> "ecommerce",
         tags |-> <<"shopping", "price-tracking", "deals", "retail">>,
         maintainers |-> <<"alertnew">>,
         richExamples |->
              <<[url |-> [scheme |-> "https://", sub |-> "www.", host |-> "amazon.com",
                           path |-> <<"dp", "B0D1XD1ZV3">>, slash |-> FALSE],
                 title |-> "Apple AirPods Pro (2nd Gen)"],
                [url |-> [scheme |-> "https://", sub |-> "www.", host |-> "amazon.com",
                           path |-> <<"dp", "B09XS7JWHH">>, slash |-> FALSE],
                 title |-> "Sony WH-1000XM5 Headphones"],
                [url |-> [scheme |-> "https://", sub |-> "www.", host |-> "amazon.com",
                           path |-> <<"dp", "B0CL61F39H">>, slash |-> FALSE],
                 title |-> "PlayStation 5 Console (slim)"]>>],
     match |-> [kind |-> "RegExp", of |-> "amazon"],
     fields |->
        << <<"title", [type |-> "string", label |-> "Product Title", primary |-> TRUE]>>,
           <<"price", [type |-> "currency", label |-> "Price", primary |-> TRUE]>>,
           <<"originalPrice", [type |-> "currency", label |-> "Original Price"]>>,
           <<"discount", [type |-> "string", label |-> "Discount"]>>,
           <<"inStock", [type |-> "boolean", label |-> "In Stock", primary |-> TRUE]>>,
           <<"rating", [type |-> "number", label |-> "Rating"]>>,
           <<"reviewCount", [type |-> "number", label |-> "Review Count"]>>,
           <<"seller", [type |-> "string", label |-> "Sold By"]>>,
           <<"asin", [type |-> "string", label |-> "ASIN"]>>,
           <<"brand", [type |-> "string", label |-> "Brand"]>>,
           <<"category", [type |-> "string", label |-> "Category"]>>,
           <<"bestSellerRank", [type |-> "number", label |-> "Best Seller Rank"]>>,
           <<"isPrime", [type |-> "boolean", label |-> "Prime Eligible"]>>,
           <<"isDeal", [type |-> "boolean", label |-> "Deal Active"]>>,
           <<"coupon", [type |-> "string", label |-> "Coupon"]>>,
           <<"deliveryDate", [type |-> "string", label |-> "Delivery Date"]>>,
           <<"imageUrl", [type |-> "url", label |-> "Product Image"]>> >>,
     extract |-> [kind |-> "function"],
     defaultAlerts |->
        <<[id |-> "price-drop",
           label |-> "Price Drop",
           description |-> "Get notified when the price decreases",
           when |-> "price < previous.price",
           icon |-> "*"],
          [id |-> "back-in-stock",
           label |-> "Back in Stock",
           description |-> "Get notified when the item is back in stock",
           when |-> "inStock == true && previous.inStock == false",
           icon |-> "*"],
          [id |-> "price-threshold",
           label |-> "Price Under Target",
           description |-> "Get notified when price drops below your target",
           when |-> "price < $threshold",
           icon |-> "*"],
          [id |-> "deal-started",
           label |-> "Deal Started",
           description |-> "Get notified when a deal becomes available",
           when |-> "isDeal == true && previous.isDeal == false",
           icon |-> "*"],
          [id |-> "coupon-available",
           label |-> "Coupon Available",
           description |-> "Get notified when a coupon is available",
           when |-> "coupon != previous.coupon && coupon != null",
           icon |-> "**"],
          [id |-> "significant-drop",
           label |-> "Significant Price Drop (10%+)",
           description |-> "Get notified when price drops by 10% or more",
           when |-> "price < previous.price * 0.9",
           icon |-> "*"]>>]

\* ebayRecipe: the attributes the registry, the validator and toClientRecipe read.
\* match: /^https?:\/\/(www\.)?ebay\.(com|co\.uk|de|fr|ca|com\.au|it|es)\/itm\//i
ebayRecipe ==
    [meta |->
        [slug |-> "ebay",
         name |-> "eBay Listing",
         description |-> "Track prices, bids, and availability on eBay",
         icon |-> "https://www.ebay.com/favicon.ico",
         category |-> "ecommerce",
         tags |-> <<"shopping", "auctions", "deals", "marketplace">>,
         maintainers |-> <<"alertnew">>,
         richExamples |->
              <<[url |-> [scheme |-> "https://", sub |-> "www.", host |-> "ebay.com",
                           path |-> <<"itm", "356852113226">>, slash |-> FALSE],
                 title |-> "Apple iPhone 15 Pro 256GB (Blue Titanium)"],
                [url |-> [scheme |-> "https://", sub |-> "www.", host |-> "ebay.com",
                           path |-> <<"itm", "126811822591">>, slash |-> FALSE],
                 title |-> "Sony PlayStation 5 Console"]>>],
     match |-> [kind |-> "RegExp", of |-> "ebay"],
     fields |->
        << <<"title", [type |-> "string", label |-> "Item Title", primary |-> TRUE]>>,
           <<"price", [type |-> "currency", label |-> "Price", primary |-> TRUE]>>,
           <<"originalPrice", [type |-> "currency", label |-> "Original Price"]>>,
           <<"discount", [type |-> "string", label |-> "Discount"]>>,
           <<"bidCount", [type |-> "number", label |-> "Bids"]>>,
           <<"currentBid", [type |-> "currency", label |-> "Current Bid"]>>,
           <<"timeLeft", [type |-> "string", label |-> "Time Left"]>>,
           <<"endTime", [type |-> "date", label |-> "End Time"]>>,
           <<"condition", [type |-> "string", label |-> "Condition"]>>,
           <<"seller", [type |-> "string", label |-> "Seller"]>>,
           <<"sellerRating", [type |-> "number", label |-> "Seller Rating %"]>>,
           <<"sellerFeedbackCount", [type |-> "number", label |-> "Seller Feedback Count"]>>,
           <<"quantity", [type |-> "number", label |-> "Available Quantity"]>>,
           <<"sold", [type |-> "number", label |-> "Sold Count"]>>,
           <<"shippingPrice", [type |-> "currency", label |-> "Shipping"]>>,
           <<"freeReturns", [type |-> "boolean", label |-> "Free Returns"]>>,
           <<"returnPeriod", [type |-> "string", label |-> "Return Period"]>>,
           <<"isAuction", [type |-> "boolean", label |-> "Auction"]>>,
           <<"isBuyItNow", [type |-> "boolean", label |-> "Buy It Now Available"]>>,
           <<"watchers", [type |-> "number", label |-> "Watchers"]>>,
           <<"itemId", [type |-> "string", label |-> "Item ID"]>>,
           <<"location", [type |-> "string", label |-> "Item Location"]>>,
           <<"brand", [type |-> "string", label |-> "Brand"]>>,
           <<"imageUrl", [type |-> "url", label |-> "Image"]>> >>,
     extract |-> [kind |-> "function"],
     defaultAlerts |->
        <<[id |-> "price-drop",
           label |-> "Price Drop",
           description |-> "Get notified when the price decreases",
           when |-> "price < previous.price",
           icon |-> "*"],
          [id |-> "new-bid",
           label |-> "New Bid",
           description |-> "Get notified when a new bid is placed",
           when |-> "bidCount > previous.bidCount",
           icon |-> "*"],
          [id |-> "ending-soon",
           label |-> "Ending Soon",
           description |-> "Get notified when auction is about to end",
           when |-> "timeLeft.includes(\"hour\") || timeLeft.includes(\"min\")",
           icon |-> "*"],
          [id |-> "low-stock",
           label |-> "Low Stock",
           description |-> "Get notified when only a few items remain",
           when |-> "quantity <= 3 && quantity < previous.quantity",
           icon |-> "*"],
          [id |-> "price-threshold",
           label |-> "Price Under Target",
           description |-> "Get notified when price drops below target",
           when |-> "price < $threshold",
           icon |-> "*"],
          [id |-> "sold-out",
           label |-> "Sold Out",
           description |-> "Get notified when item sells out",
           when |-> "quantity == 0 && previous.quantity > 0",
           icon |-> "*"]>>]

\* githubRecipe: the attributes the registry, the validator and toClientRecipe read.
\* match: /^https?:\/\/(www\.)?github\.com\/[^/]+\/[^/]+\/?$/i
githubRecipe ==
    [meta |->
        [slug |-> "github",
         name |-> "GitHub Repository",
         description |-> "Track releases, stars, forks, and activity on GitHub repositories",
         icon |-> "https://github.githubassets.com/favicons/favicon.svg",
         category |-> "developer",
         tags |-> <<"code", "open-source", "releases", "git">>,
         maintainers |-> <<"alertnew">>,
         richExamples |->
              <<[url |-> [scheme |-> "https://", sub |-> "", host |-> "github.com",
                           path |-> <<"facebook", "react">>, slash |-> FALSE],
                 title |-> "facebook/react"],
                [url |-> [scheme |-> "https://", sub |-> "", host |-> "github.com",
                           path |-> <<"vercel", "next.js">>, slash |-> FALSE],
                 title |-> "vercel/next.js"],
                [url |-> [scheme |-> "https://", sub |-> "", host |-> "github.com",
                           path |-> <<"tailwindlabs", "tailwindcss">>, slash |-> FALSE],
                 title |-> "tailwindlabs/tailwindcss"]>>],
     match |-> [kind |-> "RegExp", of |-> "github"],
     fields |->
        << <<"title", [type |-> "string", label |-> "Repository", primary |-> TRUE]>>,
           <<"description", [type |-> "string", label |-> "Description"]>>,
           <<"stars", [type |-> "number", label |-> "Stars", primary |-> TRUE]>>,
           <<"forks", [type |-> "number", label |-> "Forks"]>>,
           <<"watchers", [type |-> "number", label |-> "Watchers"]>>,
           <<"openIssues", [type |-> "number", label |-> "Open Issues"]>>,
           <<"latestRelease", [type |-> "string", label |-> "Latest Release", primary |-> TRUE]>>,
           <<"releaseDate", [type |-> "date", label |-> "Release Date"]>>,
           <<"primaryLanguage", [type |-> "string", label |-> "Primary Language"]>>,
           <<"license", [type |-> "string", label |-> "License"]>>,
           <<"topics", [type |-> "string", label |-> "Topics"]>>,
           <<"defaultBranch", [type |-> "string", label |-> "Default Branch"]>>,
           <<"createdAt", [type |-> "date", label |-> "Created"]>>,
           <<"updatedAt", [type |-> "date", label |-> "Last Updated"]>>,
           <<"pushedAt", [type |-> "date", label |-> "Last Push"]>>,
           <<"size", [type |-> "number", label |-> "Size (KB)"]>>,
           <<"isArchived", [type |-> "boolean", label |-> "Archived"]>>,
           <<"isFork", [type |-> "boolean", label |-> "Is Fork"]>>,
           <<"hasWiki", [type |-> "boolean", label |-> "Has Wiki"]>>,
           <<"hasPages", [type |-> "boolean", label |-> "Has Pages"]>>,
           <<"homepage", [type |-> "url", label |-> "Homepage"]>> >>,
     extract |-> [kind |-> "function"],
     defaultAlerts |->
        <<[id |-> "new-release",
           label |-> "New Release",
           description |-> "Get notified when a new version is released",
           when |-> "latestRelease != previous.latestRelease",
           icon |-> "****"],
          [id |-> "star-milestone",
           label |-> "Star Milestone",
           description |-> "Get notified when stars reach a milestone (1k, 10k, etc)",
           when |-> "floor(stars / 1000) > floor(previous.stars / 1000)",
           icon |-> "**"],
          [id |-> "trending",
           label |-> "Trending Activity",
           description |-> "Get notified when stars increase significantly",
           when |-> "stars - previous.stars > 100",
           icon |-> "****"],
          [id |-> "archived",
           label |-> "Repository Archived",
           description |-> "Get notified if the repository is archived",
           when |-> "isArchived == true && previous.isArchived == false",
           icon |-> "****"],
          [id |-> "new-push",
           label |-> "New Code Push",
           description |-> "Get notified when new code is pushed",
           when |-> "pushedAt != previous.pushedAt",
           icon |-> "****"]>>]

\* npmRecipe: the attributes the registry, the validator and toClientRecipe read.
\* match: /^https?:\/\/(www\.)?npmjs\.com\/package\//i
npmRecipe ==
    [meta |->
        [slug |-> "npm",
         name |-> "npm Package",
         description |-> "Track downloads, versions, and dependencies on npm",
         icon |-> "https://static.npmjs.com/b0f1a8318363185cc2ea6a40ac23eeb2.png",
         category |-> "developer",
         tags |-> <<"javascript", "nodejs", "packages", "libraries">>,
         maintainers |-> <<"alertnew">>,
         richExamples |->
              <<[url |-> [scheme |-> "https://", sub |-> "www.", host |-> "npmjs.com",
                           path |-> <<"package", "react">>, slash |-> FALSE],
                 title |-> "react"],
                [url |-> [scheme |-> "https://", sub |-> "www.", host |-> "npmjs.com",
                           path |-> <<"package", "lodash">>, slash |-> FALSE],
                 title |-> "lodash"],
                [url |-> [scheme |-> "https://", sub |-> "www.", host |-> "npmjs.com",
                           path |-> <<"package", "express">>, slash |-> FALSE],
                 title |-> "express"]>>],
     match |-> [kind |-> "RegExp", of |-> "npm"],
     fields |->
        << <<"name", [type |-> "string", label |-> "Package Name", primary |-> TRUE]>>,
           <<"version", [type |-> "string", label |-> "Latest Version", primary |-> TRUE]>>,
           <<"description", [type |-> "string", label |-> "Description"]>>,
           <<"weeklyDownloads", [type |-> "number", label |-> "Weekly Downloads"]>>,
           <<"license", [type |-> "string", label |-> "License"]>>,
           <<"dependencies", [type |-> "number", label |-> "Dependencies"]>>,
           <<"lastPublish", [type |-> "date", label |-> "Last Published"]>>,
           <<"deprecated", [type |-> "boolean", label |-> "Deprecated"]>>,
           <<"maintainerCount", [type |-> "number", label |-> "Maintainers"]>>,
           <<"typesIncluded", [type |-> "boolean", label |-> "TypeScript Types"]>> >>,
     extract |-> [kind |-> "function"],
     defaultAlerts |->
        <<[id |-> "new-version",
           label |-> "New Version",
           description |-> "Get notified when a new version is published",
           when |-> "version != previous.version",
           icon |-> "****"],
          [id |-> "major-update",
           label |-> "Major Update",
           description |-> "Get notified on major version bumps",
           when |-> "parseInt(version.split(\".\")[0]) > parseInt(previous.version.split(\".\")[0])",
           icon |-> "****"],
          [id |-> "deprecated",
           label |-> "Package Deprecated",
           description |-> "Get notified if package is deprecated",
           when |-> "deprecated == true && previous.deprecated == false",
           icon |-> "*****"],
          [id |-> "popularity-spike",
           label |-> "Popularity Spike",
           description |-> "Get notified when downloads double",
           when |-> "weeklyDownloads > previous.weeklyDownloads * 2",
           icon |-> "****"]>>]

\* redditRecipe: the attributes the registry, the validator and toClientRecipe read.
\* match: /^https?:\/\/(www\.|old\.|new\.)?reddit\.com\/r\/[^/]+\/comments\//i
redditRecipe ==
    [meta |->
        [slug |-> "reddit",
         name |-> "Reddit Post",
         description |-> "Track upvotes, comments, and awards on Reddit posts",
         icon |-> "https://www.reddit.com/favicon.ico",
         category |-> "social",
         tags |-> <<"social", "discussions", "community", "viral">>,
         maintainers |-> <<"alertnew">>,
         richExamples |->
              <<[url |-> [scheme |-> "https://", sub |-> "www.", host |-> "reddit.com",
                           path |-> <<"r", "programming", "comments", "1pe2quy", "remember_xkcds_legendary_dependency_comic_i">>, slash |-> TRUE],
                 title |-> "Remember XKCD's legendary dependency comic? I finally built the thing"],
                [url |-> [scheme |-> "https://", sub |-> "www.", host |-> "reddit.com",
                           path |-> <<"r", "programming", "comments", "1pc4rim", "the_death_of_software_engineering_as_a_profession">>, slash |-> TRUE],
                 title |-> "The Death of Software Engineering as a Profession"]>>],
     match |-> [kind |-> "RegExp", of |-> "reddit"],
     fields |->
        << <<"title", [type |-> "string", label |-> "Post Title", primary |-> TRUE]>>,
           <<"score", [type |-> "number", label |-> "Score", primary |-> TRUE]>>,
           <<"upvoteRatio", [type |-> "number", label |-> "Upvote Ratio"]>>,
           <<"comments", [type |-> "number", label |-> "Comments", primary |-> TRUE]>>,
           <<"author", [type |-> "string", label |-> "Author"]>>,
           <<"authorKarma", [type |-> "number", label |-> "Author Karma"]>>,
           <<"subreddit", [type |-> "string", label |-> "Subreddit"]>>,
           <<"subredditSubscribers", [type |-> "number", label |-> "Subreddit Subscribers"]>>,
           <<"flair", [type |-> "string", label |-> "Post Flair"]>>,
           <<"authorFlair", [type |-> "string", label |-> "Author Flair"]>>,
           <<"isLocked", [type |-> "boolean", label |-> "Locked"]>>,
           <<"isPinned", [type |-> "boolean", label |-> "Pinned"]>>,
           <<"isArchived", [type |-> "boolean", label |-> "Archived"]>>,
           <<"awardCount", [type |-> "number", label |-> "Awards"]>>,
           <<"awards", [type |-> "string", label |-> "Award Types"]>>,
           <<"crosspostCount", [type |-> "number", label |-> "Crossposts"]>>,
           <<"postType", [type |-> "string", label |-> "Post Type"]>>,
           <<"domain", [type |-> "string", label |-> "Link Domain"]>>,
           <<"linkUrl", [type |-> "url", label |-> "Link URL"]>>,
           <<"thumbnailUrl", [type |-> "url", label |-> "Thumbnail"]>>,
           <<"createdAt", [type |-> "date", label |-> "Created"]>>,
           <<"editedAt", [type |-> "date", label |-> "Edited"]>>,
           <<"isNsfw", [type |-> "boolean", label |-> "NSFW"]>>,
           <<"isSpoiler", [type |-> "boolean", label |-> "Spoiler"]>>,
           <<"isOc", [type |-> "boolean", label |-> "Original Content"]>>,
           <<"gilded", [type |-> "number", label |-> "Gold Awards"]>> >>,
     extract |-> [kind |-> "function"],
     defaultAlerts |->
        <<[id |-> "going-viral",
           label |-> "Going Viral",
           description |-> "Get notified when score increases rapidly",
           when |-> "score - previous.score > 100",
           icon |-> "*"],
          [id |-> "score-milestone",
           label |-> "Score Milestone",
           description |-> "Get notified at major milestones (100, 1k, 10k)",
           when |-> "floor(log10(score)) > floor(log10(previous.score))",
           icon |-> "*"],
          [id |-> "new-award",
           label |-> "New Award",
           description |-> "Get notified when post receives an award",
           when |-> "awardCount > previous.awardCount",
           icon |-> "*"],
          [id |-> "hot-discussion",
           label |-> "Hot Discussion",
           description |-> "Get notified when comments spike",
           when |-> "comments - previous.comments > 50",
           icon |-> "*"],
          [id |-> "locked",
           label |-> "Post Locked",
           description |-> "Get notified when post is locked by moderators",
           when |-> "isLocked == true && previous.isLocked == false",
           icon |-> "*"],
          [id |-> "gilded",
           label |-> "Post Gilded",
           description |-> "Get notified when post receives gold",
           when |-> "gilded > previous.gilded",
           icon |-> "*"],
          [id |-> "edited",
           label |-> "Post Edited",
           description |-> "Get notified when post is edited",
           when |-> "editedAt != previous.editedAt",
           icon |-> "**"]>>]

\* twitterRecipe: the attributes the registry, the validator and toClientRecipe read.
\* match: /^https?:\/\/(www\.)?(twitter\.com|x\.com)\/[^/]+\/status\/\d+/i
twitterRecipe ==
    [meta |->
        [slug |-> "twitter",
         name |-> "X/Twitter Post",
         description |-> "Track likes, retweets, and replies on X/Twitter",
         icon |-> "https://abs.twimg.com/favicons/twitter.3.ico",
         category |-> "social",
         tags |-> <<"social", "microblogging", "viral", "news">>,
         maintainers |-> <<"alertnew">>,
         richExamples |->
              <<[url |-> [scheme |-> "https://", sub |-> "", host |-> "x.com",
                           path |-> <<"OpenAI", "status", "1869449598739587438">>, slash |-> FALSE],
                 title |-> "OpenAI announces o3"],
                [url |-> [scheme |-> "https://", sub |-> "", host |-> "x.com",
                           path |-> <<"verabornnl", "status", "1866095904551768176">>, slash |-> FALSE],
                 title |-> "Vera Bonn on neural networks"]>>],
     match |-> [kind |-> "RegExp", of |-> "twitter"],
     fields |->
        << <<"text", [type |-> "string", label |-> "Tweet Text", primary |-> TRUE]>>,
           <<"author", [type |-> "string", label |-> "Author"]>>,
           <<"authorHandle", [type |-> "string", label |-> "Handle"]>>,
           <<"likes", [type |-> "number", label |-> "Likes", primary |-> TRUE]>>,
           <<"retweets", [type |-> "number", label |-> "Retweets", primary |-> TRUE]>>,
           <<"replies", [type |-> "number", label |-> "Replies"]>>,
           <<"quotes", [type |-> "number", label |-> "Quote Tweets"]>>,
           <<"bookmarks", [type |-> "number", label |-> "Bookmarks"]>>,
           <<"views", [type |-> "number", label |-> "Views"]>>,
           <<"isVerified", [type |-> "boolean", label |-> "Verified"]>>,
           <<"postedAt", [type |-> "date", label |-> "Posted"]>> >>,
     extract |-> [kind |-> "function"],
     defaultAlerts |->
        <<[id |-> "going-viral",
           label |-> "Going Viral",
           description |-> "Get notified when engagement spikes",
           when |-> "likes + retweets > (previous.likes + previous.retweets) * 2",
           icon |-> "*"],
          [id |-> "likes-milestone",
           label |-> "Likes Milestone",
           description |-> "Get notified at like milestones (100, 1K, 10K)",
           when |-> "floor(log10(likes)) > floor(log10(previous.likes))",
           icon |-> "**"],
          [id |-> "retweet-milestone",
           label |-> "Retweet Milestone",
           description |-> "Get notified at retweet milestones",
           when |-> "floor(log10(retweets)) > floor(log10(previous.retweets))",
           icon |-> "*"],
          [id |-> "ratio-alert",
           label |-> "Getting Ratio'd",
           description |-> "Get notified when replies exceed likes (controversial)",
           when |-> "replies > likes && previous.replies <= previous.likes",
           icon |-> "*"]>>]

\* youtubeRecipe: the attributes the registry, the validator and toClientRecipe read.
\* match: /^https?:\/\/(www\.)?(youtube\.com|youtu\.be)\//i
youtubeRecipe ==
    [meta |->
        [slug |-> "youtube",
         name |-> "YouTube Video",
         description |-> "Track views, likes, and comments on YouTube videos",
         icon |-> "https://www.youtube.com/favicon.ico",
         category |-> "entertainment",
         tags |-> <<"video", "streaming", "social", "viral">>,
         maintainers |-> <<"alertnew">>,
         richExamples |->
              <<[url |-> [scheme |-> "https://", sub |-> "www.", host |-> "youtube.com",
                           path |-> <<"watch?v=dQw4w9WgXcQ">>, slash |-> FALSE],
                 title |-> "Rick Astley - Never Gonna Give You Up"],
                [url |-> [scheme |-> "https://", sub |-> "www.", host |-> "youtube.com",
                           path |-> <<"@MrBeast">>, slash |-> FALSE],
                 title |-> "MrBeast"],
                [url |-> [scheme |-> "https://", sub |-> "www.", host |-> "youtube.com",
                           path |-> <<"watch?v=jNQXAC9IVRw">>, slash |-> FALSE],
                 title |-> "Me at the zoo"]>>],
     match |-> [kind |-> "RegExp", of |-> "youtube"],
     fields |->
        << <<"title", [type |-> "string", label |-> "Video Title", primary |-> TRUE]>>,
           <<"channelName", [type |-> "string", label |-> "Channel"]>>,
           <<"channelId", [type |-> "string", label |-> "Channel ID"]>>,
           <<"videoId", [type |-> "string", label |-> "Video ID"]>>,
           <<"views", [type |-> "number", label |-> "Views", primary |-> TRUE]>>,
           <<"likes", [type |-> "number", label |-> "Likes", primary |-> TRUE]>>,
           <<"comments", [type |-> "number", label |-> "Comments"]>>,
           <<"subscribers", [type |-> "number", label |-> "Subscribers"]>>,
           <<"duration", [type |-> "string", label |-> "Duration"]>>,
           <<"durationSeconds", [type |-> "number", label |-> "Duration (seconds)"]>>,
           <<"publishedAt", [type |-> "date", label |-> "Published"]>>,
           <<"description", [type |-> "string", label |-> "Description"]>>,
           <<"category", [type |-> "string", label |-> "Category"]>>,
           <<"tags", [type |-> "string", label |-> "Tags"]>>,
           <<"isLive", [type |-> "boolean", label |-> "Live Stream"]>>,
           <<"isShort", [type |-> "boolean", label |-> "YouTube Short"]>>,
           <<"isUnlisted", [type |-> "boolean", label |-> "Unlisted"]>>,
           <<"thumbnailUrl", [type |-> "url", label |-> "Thumbnail"]>>,
           <<"isVerified", [type |-> "boolean", label |-> "Verified Channel"]>>,
           <<"totalVideos", [type |-> "number", label |-> "Total Videos"]>> >>,
     extract |-> [kind |-> "function"],
     defaultAlerts |->
        <<[id |-> "new-video",
           label |-> "New Video",
           description |-> "Get notified when a new video is uploaded",
           when |-> "title != previous.title",
           icon |-> "*"],
          [id |-> "went-live",
           label |-> "Went Live",
           description |-> "Get notified when channel starts streaming",
           when |-> "isLive == true && previous.isLive == false",
           icon |-> "*"],
          [id |-> "views-milestone",
           label |-> "Views Milestone",
           description |-> "Get notified at view milestones (1K, 10K, 100K, 1M)",
           when |-> "floor(log10(views)) > floor(log10(previous.views))",
           icon |-> "*"],
          [id |-> "subscriber-milestone",
           label |-> "Subscriber Milestone",
           description |-> "Get notified at subscriber milestones",
           when |-> "floor(subscribers / 1000) > floor(previous.subscribers / 1000)",
           icon |-> "*"],
          [id |-> "going-viral",
           label |-> "Going Viral",
           description |-> "Get notified when views increase rapidly",
           when |-> "views - previous.views > 10000",
           icon |-> "*"],
          [id |-> "likes-milestone",
           label |-> "Likes Milestone",
           description |-> "Get notified at like milestones",
           when |-> "floor(log10(likes)) > floor(log10(previous.likes))",
           icon |-> "*"]>>]

\* hackernewsRecipe: the attributes the registry, the validator and toClientRecipe read.
\* match: /^https?:\/\/(www\.)?news\.ycombinator\.com\/(item|front|news|newest|best)/i
hackernewsRecipe ==
    [meta |->
        [slug |-> "hackernews",
         name |-> "Hacker News",
         description |-> "Track stories, comments, and points on Hacker News",
         icon |-> "https://news.ycombinator.com/favicon.ico",
         category |-> "news",
         tags |-> <<"tech", "news", "startup", "programming">>,
         maintainers |-> <<"alertnew">>,
         richExamples |->
              <<[url |-> [scheme |-> "https://", sub |-> "", host |-> "news.ycombinator.com",
                           path |-> <<"item?id=46183294">>, slash |-> FALSE],
                 title |-> "I failed to recreate the 1996 Space Jam website with Claude"],
                [url |-> [scheme |-> "https://", sub |-> "", host |-> "news.ycombinator.com",
                           path |-> <<"item?id=46147285">>, slash |-> FALSE],
                 title |-> "Uninitialized garbage on ia64 can be deadly (2004)"]>>],
     match |-> [kind |-> "RegExp", of |-> "hackernews"],
     fields |->
        << <<"title", [type |-> "string", label |-> "Title", primary |-> TRUE]>>,
           <<"points", [type |-> "number", label |-> "Points", primary |-> TRUE]>>,
           <<"comments", [type |-> "number", label |-> "Comments", primary |-> TRUE]>>,
           <<"author", [type |-> "string", label |-> "Author"]>>,
           <<"rank", [type |-> "number", label |-> "Front Page Rank"]>>,
           <<"url", [type |-> "url", label |-> "Link URL"]>>,
           <<"domain", [type |-> "string", label |-> "Domain"]>>,
           <<"itemId", [type |-> "number", label |-> "Item ID"]>>,
           <<"createdAt", [type |-> "date", label |-> "Posted"]>>,
           <<"itemType", [type |-> "string", label |-> "Type"]>>,
           <<"isDeleted", [type |-> "boolean", label |-> "Deleted"]>>,
           <<"isDead", [type |-> "boolean", label |-> "Dead"]>>,
           <<"topStoryCount", [type |-> "number", label |-> "Top Stories"]>> >>,
     extract |-> [kind |-> "function"],
     defaultAlerts |->
        <<[id |-> "front-page",
           label |-> "Hit Front Page",
           description |-> "Get notified when story reaches the front page",
           when |-> "rank <= 30 && previous.rank > 30",
           icon |-> "*"],
          [id |-> "points-milestone",
           label |-> "Points Milestone",
           description |-> "Get notified at point milestones (100, 500, 1000)",
           when |-> "floor(points / 100) > floor(previous.points / 100)",
           icon |-> "**"],
          [id |-> "viral",
           label |-> "Going Viral",
           description |-> "Get notified when points increase rapidly",
           when |-> "points - previous.points > 50",
           icon |-> "*"]>>]

\* genericRecipe: the attributes the registry, the validator and toClientRecipe read.
\* match: () => true
genericRecipe ==
    [meta |->
        [slug |-> "generic",
         name |-> "Web Page",
         description |-> "Monitor any web page for content changes",
         icon |-> "*",
         category |-> "other",
         tags |-> <<"general", "any", "webpage">>,
         maintainers |-> <<"alertnew">>,
         richExamples |->
              <<[url |-> [scheme |-> "https://", sub |-> "www.", host |-> "apple.com",
                           path |-> <<"shop", "buy-mac", "macbook-pro">>, slash |-> FALSE],
                 title |-> "Apple MacBook Pro"],
                [url |-> [scheme |-> "https://", sub |-> "www.", host |-> "tesla.com",
                           path |-> <<"model3">>, slash |-> FALSE],
                 title |-> "Tesla Model 3"]>>],
     match |-> [kind |-> "function", of |-> "generic"],
     fields |->
        << <<"title", [type |-> "string", label |-> "Page Title", primary |-> TRUE]>>,
           <<"description", [type |-> "string", label |-> "Description"]>>,
           <<"author", [type |-> "string", label |-> "Author"]>>,
           <<"lastModified", [type |-> "date", label |-> "Last Modified"]>>,
           <<"mainContent", [type |-> "string", label |-> "Main Content"]>>,
           <<"wordCount", [type |-> "number", label |-> "Word Count"]>> >>,
     extract |-> [kind |-> "function"],
     defaultAlerts |->
        <<[id |-> "content-change",
           label |-> "Content Changed",
           description |-> "Get notified when the page content changes",
           when |-> "mainContent != previous.mainContent",
           icon |-> "*"],
          [id |-> "title-change",
           label |-> "Title Changed",
           description |-> "Get notified when the page title changes",
           when |-> "title != previous.title",
           icon |-> "*"]>>]

\* The registry with eBay listed a second time in place of GitHub.
recipes_EbayTwice == <<amazonRecipe, ebayRecipe, ebayRecipe, npmRecipe,
                       redditRecipe, twitterRecipe, youtubeRecipe, hackernewsRecipe>>

recipes == <<amazonRecipe, ebayRecipe, githubRecipe, npmRecipe,
             redditRecipe, twitterRecipe, youtubeRecipe, hackernewsRecipe>>

allRecipes_NoFallback == recipes

allRecipes == recipes \o <<genericRecipe>>

\* Calling a predicate `match`; the only bundled predicate is the fallback's.
CallMatch(of, u) == of = "generic"

\* One iteration of the loop of getRecipeForUrl: does recipe r claim u?
Claims(r, u) ==
    IF r.match.kind = "RegExp" THEN RegExpTest(r.match.of, u)
    ELSE IF r.match.kind = "function" THEN CallMatch(r.match.of, u)
    ELSE FALSE

RECURSIVE ScanFrom(_, _, _)
ScanFrom(rs, u, i) ==
    IF i > Len(rs) THEN genericRecipe
    ELSE IF Claims(rs[i], u) THEN rs[i]
    ELSE ScanFrom(rs, u, i + 1)

RECURSIVE ScanBackFrom(_, _, _)
ScanBackFrom(rs, u, i) ==
    IF i < 1 THEN genericRecipe
    ELSE IF Claims(rs[i], u) THEN rs[i]
    ELSE ScanBackFrom(rs, u, i - 1)

getRecipeForUrl_LastMatch(rs, u) == ScanBackFrom(rs, u, Len(rs))

\* getRecipeForUrl, with the registry it iterates as a parameter
\* (the code iterates the module constant `recipes`).
getRecipeForUrl(rs, u) == ScanFrom(rs, u, 1)

RECURSIVE FindFrom(_, _, _)
FindFrom(rs, slug, i) ==
    IF i > Len(rs) THEN <<>>
    ELSE IF rs[i].meta.slug = slug THEN <<rs[i]>>
    ELSE FindFrom(rs, slug, i + 1)

\* getRecipeBySlug: Array.prototype.find over allRecipes; <<>> is undefined.
getRecipeBySlug(slug) == FindFrom(allRecipes, slug, 1)

SlugArgs == {allRecipes[i].meta.slug : i \in 1..Len(allRecipes)} \cup {"unknown-recipe", ""}

(***************************************************************************)
(* Specification SpecDispatch: the registry query surface.                 *)
(***************************************************************************)

Idle == [op |-> "idle"]

Init ==
    /\ call = Idle
    /\ ret = <<>>
    /\ pc = "idle"
    /\ data = <<>>

GetRecipeForUrl ==
    /\ pc = "idle"
    /\ \E u \in Urls :
        /\ call' = [op |-> "getRecipeForUrl", url |-> u]
        /\ ret' = <<getRecipeForUrl(recipes, u)>>
    /\ pc' = "returned"
    /\ UNCHANGED data

GetRecipeBySlug ==
    /\ pc = "idle"
    /\ \E s \in SlugArgs :
        /\ call' = [op |-> "getRecipeBySlug", slug |-> s]
        /\ ret' = getRecipeBySlug(s)
    /\ pc' = "returned"
    /\ UNCHANGED data

\* The caller takes the result; the next call starts from the same registry.
Return ==
    /\ pc = "returned"
    /\ call' = Idle
    /\ ret' = <<>>
    /\ pc' = "idle"
    /\ data' = <<>>

NextDispatch == GetRecipeForUrl \/ GetRecipeBySlug \/ Return

SpecDispatch == Init /\ [][NextDispatch]_vars


\* The positions of the registry rs whose recipe claims u.
MatchingPositions(rs, u) == {i \in 1..Len(rs) : Claims(rs[i], u)}

\* The registry rs with the recipes at positions i and j registered in each other's place.
SwapRegistration(rs, i, j) ==
    [k \in 1..Len(rs) |-> IF k = i THEN rs[j] ELSE IF k = j THEN rs[i] ELSE rs[k]]

\* C1: getRecipeForUrl(u) returns exactly one recipe: the first recipe of `recipes`,
\* in registration order, whose match accepts u, and genericRecipe iff no
\* site-specific recipe accepts u; when two site-specific recipes accept u the
\* earlier-registered one is returned, and with their registration swapped the
\* other one is.
C1_FirstMatchInRegistrationOrder ==
    call.op = "getRecipeForUrl" =>
        LET u == call.url
            M == MatchingPositions(recipes, u)
        IN  /\ Len(ret) = 1
            /\ (M = {}) <=> (ret[1] = genericRecipe)
            /\ \A i \in M : (\A k \in M : i <= k) => ret[1] = recipes[i]
            /\ \A i, j \in M :
                  (i < j /\ \A k \in M : i <= k) =>
                      /\ ret[1] = recipes[i]
                      /\ recipes[j] # recipes[i]
                      /\ getRecipeForUrl(SwapRegistration(recipes, i, j), u) = recipes[j]

\* C1 witness: a URL two site-specific recipes accept has been resolved.
C1_Witness_TwoRecipesAccept ==
    /\ call.op = "getRecipeForUrl"
    /\ Cardinality(MatchingPositions(recipes, call.url)) >= 2
    /\ ret = <<amazonRecipe>>

\* C2: allRecipes is `recipes` in order followed by genericRecipe once, as its last
\* element, and genericRecipe is no member of `recipes`; getRecipeBySlug(id) returns
\* the first member of allRecipes (fallback included) whose meta.slug is id, and
\* undefined when there is none.
C2_LookupScansAllRecipes ==
    /\ Len(allRecipes) = Len(recipes) + 1
    /\ SubSeq(allRecipes, 1, Len(recipes)) = recipes
    /\ allRecipes[Len(allRecipes)] = genericRecipe
    /\ \A i \in 1..Len(recipes) : recipes[i] # genericRecipe
    /\ call.op = "getRecipeBySlug" =>
          LET H == {i \in 1..Len(allRecipes) : allRecipes[i].meta.slug = call.slug}
          IN  IF H = {} THEN ret = <<>>
              ELSE ret = <<allRecipes[CHOOSE i \in H : \A k \in H : i <= k]>>

\* C2 witness: the fallback has been looked up by its slug, and an unknown slug
\* is looked up in another state.
C2_Witness_FallbackFound ==
    /\ call.op = "getRecipeBySlug"
    /\ call.slug = "generic"
    /\ ret = <<genericRecipe>>


(***************************************************************************)
(* JavaScript values.  A value is a record tagged by `t`; numbers are held *)
(* in hundredths (29.99 is Num(2999)), NaN has a tag of its own.  An       *)
(* object is the sequence of its own enumerable <<key, value>> entries in  *)
(* insertion order, an array the sequence of its elements.                 *)
(***************************************************************************)

Undefined == [t |-> "undefined"]

Null == [t |-> "null"]

NaN == [t |-> "NaN"]

Num(n) == [t |-> "number", n |-> n]

Str(s) == [t |-> "string", s |-> s]

Bool(b) == [t |-> "boolean", b |-> b]

Arr(items) == [t |-> "array", items |-> items]

Obj(entries) == [t |-> "object", entries |-> entries]

\* An Error instance with its message.
Error(m) == [t |-> "Error", message |-> m]

\* The typeof operator.
TypeOf(v) ==
    CASE v.t \in {"number", "NaN"} -> "number"
      [] v.t \in {"null", "array", "object", "Error"} -> "object"
      [] OTHER -> v.t

\* How a call ends: it returns (or its promise resolves with) a value, or it
\* throws (or its promise rejects with) one.
Returns(v) == [kind |-> "return", value |-> v]

Throws(v) == [kind |-> "throw", value |-> v]

\* Array index i (from 0) as a property key.
IndexKey(i) == CASE i = 0 -> "0" [] i = 1 -> "1" [] i = 2 -> "2" [] i = 3 -> "3" [] OTHER -> "n"

\* Object.entries(v) of an object or an array.
ObjectEntries(v) ==
    CASE v.t = "object" -> v.entries
      [] v.t = "array" -> [i \in 1..Len(v.items) |-> <<IndexKey(i - 1), v.items[i]>>]
      [] OTHER -> <<>>

(***************************************************************************)
(* testExtractFunction (validate.ts).                                      *)
(***************************************************************************)

\* The body of the try block after the await, lines 410-422, on the value d
\* the routine resolved with.
CheckExtracted(d) ==
    IF TypeOf(d) # "object" \/ d = Null
    THEN [success |-> FALSE, error |-> "Extract must return an object"]
    ELSE LET es == ObjectEntries(d)
             U  == {i \in 1..Len(es) : es[i][2] = Undefined}
         IN  IF U # {}
             THEN [success |-> FALSE,
                   error |-> "Field " \o es[CHOOSE i \in U : \A k \in U : i <= k][1]
                                 \o " is undefined (should be omitted)"]
             ELSE [success |-> TRUE, data |-> d]

\* The catch clause, lines 423-428, on the thrown value e.
CaughtError(e) ==
    [success |-> FALSE, error |-> IF e.t = "Error" THEN e.message ELSE "Unknown error"]

testExtractFunction_NoCatch(outcome) ==
    IF outcome.kind = "throw" THEN outcome
    ELSE Returns(CheckExtracted(outcome.value))

\* testExtractFunction, on the outcome of `await recipe.extract(html, url)`.
testExtractFunction(outcome) ==
    IF outcome.kind = "throw" THEN Returns(CaughtError(outcome.value))
    ELSE Returns(CheckExtracted(outcome.value))

\* Bounds: the longest array and the largest object a routine returns.
MaxItems == 2

MaxEntries == 2

FieldKeys == {"title", "price", "inStock"}

FieldValues == {Undefined, Null, Num(0), Str("A")}

RECURSIVE SeqsUpTo(_, _)
SeqsUpTo(S, n) ==
    IF n = 0 THEN {<<>>}
    ELSE LET shorter == SeqsUpTo(S, n - 1)
         IN  shorter \cup {Append(q, x) : q \in {r \in shorter : Len(r) = n - 1}, x \in S}

\* Entry sequences whose keys are pairwise distinct.
EntrySeqs ==
    {es \in SeqsUpTo(FieldKeys \X FieldValues, MaxEntries) :
        \A i, j \in 1..Len(es) : i # j => es[i][1] # es[j][1]}

ThrownValues == {Error("Test error"), Error(""), Str("boom"), Undefined, Null}

ResolvedValues ==
    {Undefined, Null, Num(0), Num(2999), Str(""), Str("A"), Bool(FALSE), Bool(TRUE)}
        \cup {Arr(items) : items \in SeqsUpTo(FieldValues, MaxItems)}
        \cup {Obj(es) : es \in EntrySeqs}

RoutineOutcomes == {Throws(e) : e \in ThrownValues} \cup {Returns(v) : v \in ResolvedValues}

(***************************************************************************)
(* Specification SpecTestExtract: testExtractFunction on a routine whose   *)
(* outcome is drawn from RoutineOutcomes.                                  *)
(***************************************************************************)

\* testExtractFunction calls recipe.extract and suspends at the await.
TestExtractCall ==
    /\ pc = "idle"
    /\ \E o \in RoutineOutcomes : call' = [op |-> "testExtractFunction", outcome |-> o]
    /\ pc' = "awaiting"
    /\ UNCHANGED <<ret, data>>

\* The routine's promise settles and testExtractFunction runs to its end.
TestExtractSettle ==
    /\ pc = "awaiting"
    /\ call.op = "testExtractFunction"
    /\ ret' = <<testExtractFunction(call.outcome)>>
    /\ pc' = "returned"
    /\ UNCHANGED <<call, data>>

NextTestExtract == TestExtractCall \/ TestExtractSettle \/ Return

SpecTestExtract == Init /\ [][NextTestExtract]_vars

\* testExtractFunction has settled.
TestExtractDone == pc = "returned" /\ call.op = "testExtractFunction"

\* C7: whenever recipe.extract throws or rejects, with an Error or any other
\* value, testExtractFunction's promise resolves (it does not reject) to
\* {success: false, error} with error the Error's message, or 'Unknown error'
\* for a non-Error, and with no data.
C7_FailureIsCaptured ==
    (TestExtractDone /\ call.outcome.kind = "throw") =>
        /\ ret[1].kind = "return"
        /\ ret[1].value.success = FALSE
        /\ "data" \notin DOMAIN ret[1].value
        /\ ret[1].value.error =
              (IF call.outcome.value.t = "Error" THEN call.outcome.value.message
               ELSE "Unknown error")

\* C7 witness: a routine that threw a non-Error has been reported as 'Unknown error'.
C7_Witness_NonErrorThrown ==
    /\ TestExtractDone
    /\ call.outcome = Throws(Str("boom"))
    /\ ret = <<Returns([success |-> FALSE, error |-> "Unknown error"])>>

\* A field map: a plain object of field values (not null, a primitive or a list).
IsFieldMap(v) == v.t = "object"

\* C8 (as claimed): testExtractFunction reports success = false whenever the
\* routine's result is not a field map: null, a primitive, or a list.
C8_NonMapIsFailure ==
    (TestExtractDone /\ call.outcome.kind = "return" /\ ~IsFieldMap(call.outcome.value)) =>
        ret[1].value.success = FALSE

\* C9 (as claimed): success = false when the returned map has a key whose value
\* is undefined, and success = true, with data the returned map, exactly when
\* the routine returns a map in which no key has the value undefined.
C9_SuccessExactlyForCleanMaps ==
    TestExtractDone =>
        LET o == call.outcome
            cleanMap == /\ o.kind = "return"
                        /\ IsFieldMap(o.value)
                        /\ \A i \in 1..Len(o.value.entries) : o.value.entries[i][2] # Undefined
        IN  /\ ret[1].value.success = TRUE <=> cleanMap
            /\ ret[1].value.success = TRUE => ret[1].value.data = o.value


(***************************************************************************)
(* The validator (validate.ts).  A recipe handed to the validator is a     *)
(* record in which any attribute may be missing (its key is absent).       *)
(* Lists are sequences; the field schema is the sequence of its            *)
(* <<name, descriptor>> entries in insertion order.                        *)
(***************************************************************************)

Has(r, k) == k \in DOMAIN r

\* !r[k] is false for a string attribute: it is there and not ''.
TruthyStr(r, k) == Has(r, k) /\ r[k] # ""

\* The i-th character of string s, and "" outside it.
CharAt(s, i) == IF i \in 1..Len(s) THEN SubSeq(s, i, i) ELSE ""

SlugChars == {"a", "b", "c", "d", "e", "f", "g", "h", "i", "j", "k", "l", "m",
              "n", "o", "p", "q", "r", "s", "t", "u", "v", "w", "x", "y", "z",
              "0", "1", "2", "3", "4", "5", "6", "7", "8", "9", "-"}

\* The slug test with the i flag: upper-case letters pass too.
SlugFormatOk_IgnoreCase(s) ==
    Len(s) > 0 /\ \A i \in 1..Len(s) : CharAt(s, i) \in SlugChars \cup
        {"A", "B", "C", "D", "E", "F", "G", "H", "I", "J", "K", "L", "M",
         "N", "O", "P", "Q", "R", "S", "T", "U", "V", "W", "X", "Y", "Z"}

\* /^[a-z0-9-]+$/.test(s)
SlugFormatOk(s) == Len(s) > 0 /\ \A i \in 1..Len(s) : CharAt(s, i) \in SlugChars

\* Characters that String.prototype.trim removes.
Whitespace == {" ", "\t", "\n"}

\* s.trim().length === 0
BlankStr(s) == \A i \in 1..Len(s) : CharAt(s, i) \in Whitespace

\* Object.keys(RECIPE_CATEGORIES)
VALID_CATEGORIES == <<"ecommerce", "developer", "jobs", "social", "news", "finance",
                      "status", "entertainment", "travel", "government", "other">>

RECURSIVE JoinStr(_, _)
JoinStr(ss, sep) ==
    IF Len(ss) = 0 THEN ""
    ELSE IF Len(ss) = 1 THEN ss[1]
    ELSE ss[1] \o sep \o JoinStr(Tail(ss), sep)

\* The text of a URL value.
UrlText(u) ==
    u.scheme \o u.sub \o u.host
        \o (IF Len(u.path) > 0 THEN "/" \o JoinStr(u.path, "/") ELSE "")
        \o (IF u.slash THEN "/" ELSE "")

\* new URL(u) does not throw: the text is an absolute URL (it has a scheme).
UrlParses(u) == u.scheme # ""

\* Program constants of the soft length checks.
MaxNameLength == 50

MinDescriptionLength == 20

MaxDescriptionLength == 200

Finding(slug, field, message, severity) ==
    [recipe |-> slug, field |-> field, message |-> message, severity |-> severity]

\* recipe.match accepts URL u, as validateRecipe and validateAllRecipes decide it:
\* RegExp test, predicate call, and false for anything else.
MatchAccepts(recipe, u) ==
    IF ~Has(recipe, "match") THEN FALSE
    ELSE IF recipe.match.kind = "RegExp" THEN RegExpTest(recipe.match.of, u)
    ELSE IF recipe.match.kind = "function" THEN CallMatch(recipe.match.of, u)
    ELSE FALSE

\* The field-schema loop without its label check.
RECURSIVE FieldErrors_TypeOnly(_, _, _)
FieldErrors_TypeOnly(slug, fields, i) ==
    IF i > Len(fields) THEN <<>>
    ELSE (IF ~TruthyStr(fields[i][2], "type")
          THEN <<Finding(slug, "fields." \o fields[i][1], "Field must have a type", "error")>>
          ELSE <<>>)
         \o FieldErrors_TypeOnly(slug, fields, i + 1)

\* The findings of the field-schema loop, lines 245-255, from entry i on.
RECURSIVE FieldErrors(_, _, _)
FieldErrors(slug, fields, i) ==
    IF i > Len(fields) THEN <<>>
    ELSE LET name == fields[i][1]
             f    == fields[i][2]
         IN  (IF ~TruthyStr(f, "type")
              THEN <<Finding(slug, "fields." \o name, "Field must have a type", "error")>>
              ELSE <<>>)
             \o (IF ~TruthyStr(f, "label")
                 THEN <<Finding(slug, "fields." \o name, "Field must have a label", "error")>>
                 ELSE <<>>)
             \o FieldErrors(slug, fields, i + 1)

\* `${alert.id}` in a message.
AlertIdText(a) == IF Has(a, "id") THEN a.id ELSE "undefined"

\* The findings of the default-alert loop, lines 271-286, from alert i on,
\* with `seen` the alertIds set so far.
RECURSIVE AlertErrors(_, _, _, _)
AlertErrors(slug, alerts, i, seen) ==
    IF i > Len(alerts) THEN <<>>
    ELSE LET a == alerts[i]
             idE == IF ~TruthyStr(a, "id")
                    THEN <<Finding(slug, "defaultAlerts", "Alert must have an id", "error")>>
                    ELSE IF a.id \in seen
                    THEN <<Finding(slug, "defaultAlerts", "Duplicate alert id: " \o a.id, "error")>>
                    ELSE <<>>
             seen2 == IF TruthyStr(a, "id") THEN seen \cup {a.id} ELSE seen
             labelE == IF ~TruthyStr(a, "label")
                       THEN <<Finding(slug, "defaultAlerts",
                                      "Alert " \o AlertIdText(a) \o " must have a label", "error")>>
                       ELSE <<>>
             whenE == IF ~TruthyStr(a, "when")
                      THEN <<Finding(slug, "defaultAlerts",
                                     "Alert " \o AlertIdText(a) \o " must have a when condition", "error")>>
                      ELSE <<>>
         IN  idE \o labelE \o whenE \o AlertErrors(slug, alerts, i + 1, seen2)

\* The rich-example loop without the test of the example against the match.
RECURSIVE ExampleErrors_NoMatchCheck(_, _, _, _)
ExampleErrors_NoMatchCheck(slug, recipe, examples, i) ==
    IF i > Len(examples) THEN <<>>
    ELSE (IF ~UrlParses(examples[i].url)
          THEN <<Finding(slug, "meta.richExamples",
                         "Invalid example URL: " \o UrlText(examples[i].url), "error")>>
          ELSE <<>>)
         \o (IF ~Has(examples[i], "title") \/ BlankStr(examples[i].title)
             THEN <<Finding(slug, "meta.richExamples",
                            "Example missing title for URL: " \o UrlText(examples[i].url),
                            "error")>>
             ELSE <<>>)
         \o ExampleErrors_NoMatchCheck(slug, recipe, examples, i + 1)

\* The findings of the rich-example loop, lines 293-316, from example i on.
RECURSIVE ExampleErrors(_, _, _, _)
ExampleErrors(slug, recipe, examples, i) ==
    IF i > Len(examples) THEN <<>>
    ELSE LET ex == examples[i]
             urlE == IF ~UrlParses(ex.url)
                     THEN <<Finding(slug, "meta.richExamples",
                                    "Invalid example URL: " \o UrlText(ex.url), "error")>>
                     ELSE <<>>
             titleE == IF ~Has(ex, "title") \/ BlankStr(ex.title)
                       THEN <<Finding(slug, "meta.richExamples",
                                      "Example missing title for URL: " \o UrlText(ex.url), "error")>>
                       ELSE <<>>
             matchE == IF Has(recipe, "match") /\ ~MatchAccepts(recipe, ex.url)
                       THEN <<Finding(slug, "meta.richExamples",
                                      "Example URL does not match recipe pattern: "
                                          \o UrlText(ex.url), "error")>>
                       ELSE <<>>
         IN  urlE \o titleE \o matchE \o ExampleErrors(slug, recipe, examples, i + 1)

\* The errors of validateRecipe on a recipe that has a meta object, in the
\* order the checks add them.
RecipeErrors(slug, recipe) ==
    LET meta == recipe.meta
        E(field, message) == <<Finding(slug, field, message, "error")>>
    IN  (IF ~TruthyStr(meta, "slug") THEN E("meta.slug", "Recipe must have a slug")
         ELSE IF ~SlugFormatOk(meta.slug)
         THEN E("meta.slug", "Slug must be lowercase alphanumeric with hyphens only")
         ELSE <<>>)
        \o (IF ~TruthyStr(meta, "name") THEN E("meta.name", "Recipe must have a name") ELSE <<>>)
        \o (IF ~TruthyStr(meta, "description")
            THEN E("meta.description", "Recipe must have a description") ELSE <<>>)
        \o (IF ~TruthyStr(meta, "icon") THEN E("meta.icon", "Recipe must have an icon") ELSE <<>>)
        \o (IF ~TruthyStr(meta, "category") THEN E("meta.category", "Recipe must have a category")
            ELSE IF \A i \in 1..Len(VALID_CATEGORIES) : VALID_CATEGORIES[i] # meta.category
            THEN E("meta.category",
                   "Invalid category. Must be one of: " \o JoinStr(VALID_CATEGORIES, ", "))
            ELSE <<>>)
        \o (IF ~Has(meta, "maintainers") \/ Len(meta.maintainers) = 0
            THEN E("meta.maintainers", "Recipe must have at least one maintainer") ELSE <<>>)
        \o (IF ~Has(recipe, "match") THEN E("match", "Recipe must have a match pattern")
            ELSE IF recipe.match.kind \notin {"RegExp", "function"}
            THEN E("match", "Match must be a RegExp or function")
            ELSE <<>>)
        \o (IF ~Has(recipe, "fields") \/ Len(recipe.fields) = 0
            THEN E("fields", "Recipe must have at least one field")
            ELSE FieldErrors(slug, recipe.fields, 1))
        \o (IF ~Has(recipe, "extract") THEN E("extract", "Recipe must have an extract function")
            ELSE IF recipe.extract.kind # "function" THEN E("extract", "Extract must be a function")
            ELSE <<>>)
        \o (IF Has(recipe, "defaultAlerts") THEN AlertErrors(slug, recipe.defaultAlerts, 1, {})
            ELSE <<>>)
        \o (IF Has(meta, "richExamples") /\ Len(meta.richExamples) > 0
            THEN ExampleErrors(slug, recipe, meta.richExamples, 1)
            ELSE <<>>)

\* The warnings of validateRecipe on a recipe that has a meta object, in the
\* order the checks add them.
RecipeWarnings(slug, recipe) ==
    LET meta == recipe.meta
        W(field, message) == <<Finding(slug, field, message, "warning")>>
    IN  (IF TruthyStr(meta, "name") /\ Len(meta.name) > MaxNameLength
         THEN W("meta.name", "Name should be under 50 characters") ELSE <<>>)
        \o (IF ~TruthyStr(meta, "description") THEN <<>>
            ELSE IF Len(meta.description) < MinDescriptionLength
            THEN W("meta.description", "Description should be at least 20 characters")
            ELSE IF Len(meta.description) > MaxDescriptionLength
            THEN W("meta.description", "Description should be under 200 characters")
            ELSE <<>>)
        \o (IF ~Has(meta, "tags") \/ Len(meta.tags) = 0
            THEN W("meta.tags", "Recipe should have at least one tag for discoverability")
            ELSE <<>>)
        \o (IF Has(recipe, "fields") /\ Len(recipe.fields) > 0
               /\ \A i \in 1..Len(recipe.fields) :
                     ~(Has(recipe.fields[i][2], "primary") /\ recipe.fields[i][2].primary)
            THEN W("fields", "Recipe should have at least one primary field") ELSE <<>>)
        \o (IF ~Has(recipe, "defaultAlerts")
            THEN W("defaultAlerts", "Recipe should have at least one default alert") ELSE <<>>)
        \o (IF Has(meta, "richExamples") /\ Len(meta.richExamples) > 0 THEN <<>>
            ELSE W("meta.richExamples", "Recipe should have rich examples for better UX"))

\* recipe.meta?.slug || 'unknown'
SlugOrUnknown(recipe) ==
    IF Has(recipe, "meta") /\ TruthyStr(recipe.meta, "slug") THEN recipe.meta.slug ELSE "unknown"

validateRecipe_WarningsCount(recipe) ==
    LET slug == SlugOrUnknown(recipe)
    IN  IF ~Has(recipe, "meta")
        THEN [valid |-> FALSE,
              errors |-> <<Finding(slug, "meta", "Recipe must have meta object", "error")>>,
              warnings |-> <<>>]
        ELSE [valid |-> Len(RecipeErrors(slug, recipe)) = 0 /\ Len(RecipeWarnings(slug, recipe)) = 0,
              errors |-> RecipeErrors(slug, recipe),
              warnings |-> RecipeWarnings(slug, recipe)]

\* validateRecipe: the ValidationResult it returns.
validateRecipe(recipe) ==
    LET slug == SlugOrUnknown(recipe)
    IN  IF ~Has(recipe, "meta")
        THEN [valid |-> FALSE,
              errors |-> <<Finding(slug, "meta", "Recipe must have meta object", "error")>>,
              warnings |-> <<>>]
        ELSE [valid |-> Len(RecipeErrors(slug, recipe)) = 0,
              errors |-> RecipeErrors(slug, recipe),
              warnings |-> RecipeWarnings(slug, recipe)]


\* The duplicate-slug errors with the test count > 2.
RECURSIVE DuplicateSlugErrors_MoreThanTwo(_, _)
DuplicateSlugErrors_MoreThanTwo(rs, i) ==
    IF i > Len(rs) THEN <<>>
    ELSE LET slugOf(k) == IF Has(rs[k], "meta") /\ TruthyStr(rs[k].meta, "slug")
                          THEN <<rs[k].meta.slug>> ELSE <<>>
             count == Cardinality({k \in 1..Len(rs) : slugOf(k) = slugOf(i)})
             first == \A k \in 1..(i - 1) : slugOf(k) # slugOf(i)
         IN  (IF slugOf(i) # <<>> /\ first /\ count > 2
              THEN <<Finding(slugOf(i)[1], "meta.slug",
                             "Duplicate slug found " \o ToString(count) \o " times", "error")>>
              ELSE <<>>)
             \o DuplicateSlugErrors_MoreThanTwo(rs, i + 1)

\* The duplicate-slug errors, lines 343-359: one for each slug that occurs more
\* than once, in the order of the slugs' first occurrences (Map insertion order).
RECURSIVE DuplicateSlugErrors(_, _)
DuplicateSlugErrors(rs, i) ==
    IF i > Len(rs) THEN <<>>
    ELSE LET slugOf(k) == IF Has(rs[k], "meta") /\ TruthyStr(rs[k].meta, "slug")
                          THEN <<rs[k].meta.slug>> ELSE <<>>
             count == Cardinality({k \in 1..Len(rs) : slugOf(k) = slugOf(i)})
             first == \A k \in 1..(i - 1) : slugOf(k) # slugOf(i)
         IN  (IF slugOf(i) # <<>> /\ first /\ count > 1
              THEN <<Finding(slugOf(i)[1], "meta.slug",
                             "Duplicate slug found " \o ToString(count) \o " times", "error")>>
              ELSE <<>>)
             \o DuplicateSlugErrors(rs, i + 1)

\* The overlap loop without its skip of the generic recipe.
IsGenericSlug_Never(r) == FALSE

\* r.meta.slug === 'generic', for a recipe that has a meta object.
IsGenericSlug(r) == Has(r.meta, "slug") /\ r.meta.slug = "generic"

\* `${r.meta.slug}` and the `recipe` attribute of an overlap warning.
MetaSlugText(r) == IF Has(r.meta, "slug") THEN r.meta.slug ELSE "undefined"

\* The same loop testing the example against r2's match only when that match
\* is a RegExp.
RECURSIVE PairOverlapWarnings_RegExpOnly(_, _, _)
PairOverlapWarnings_RegExpOnly(r1, r2, k) ==
    IF ~Has(r1.meta, "richExamples") \/ k > Len(r1.meta.richExamples) THEN <<>>
    ELSE (IF r2.match.kind = "RegExp" /\ RegExpTest(r2.match.of, r1.meta.richExamples[k].url)
          THEN <<Finding(MetaSlugText(r1), "match",
                         "Example \"" \o UrlText(r1.meta.richExamples[k].url) \o "\" also matches "
                             \o MetaSlugText(r2) \o " recipe", "warning")>>
          ELSE <<>>)
         \o PairOverlapWarnings_RegExpOnly(r1, r2, k + 1)

\* The overlap warnings of r1's examples against r2's pattern, lines 371-388,
\* from example k on.
RECURSIVE PairOverlapWarnings(_, _, _)
PairOverlapWarnings(r1, r2, k) ==
    IF ~Has(r1.meta, "richExamples") \/ k > Len(r1.meta.richExamples) THEN <<>>
    ELSE LET ex == r1.meta.richExamples[k]
         IN  (IF MatchAccepts(r2, ex.url)
              THEN <<Finding(MetaSlugText(r1), "match",
                             "Example \"" \o UrlText(ex.url) \o "\" also matches "
                                 \o MetaSlugText(r2) \o " recipe", "warning")>>
              ELSE <<>>)
             \o PairOverlapWarnings(r1, r2, k + 1)

\* The overlap warnings of the loops of lines 362-390, from pair (i, j) on.
RECURSIVE OverlapWarnings(_, _, _)
OverlapWarnings(rs, i, j) ==
    IF i > Len(rs) THEN <<>>
    ELSE IF j > Len(rs) THEN OverlapWarnings(rs, i + 1, i + 2)
    ELSE (IF IsGenericSlug(rs[i]) \/ IsGenericSlug(rs[j]) THEN <<>>
          ELSE PairOverlapWarnings(rs[i], rs[j], 1))
         \o OverlapWarnings(rs, i, j + 1)

\* Line 368 reads r1.meta.slug and r2.meta.slug: a TypeError when a recipe of a
\* pair has no meta object (r2 is read only when r1's slug is not 'generic').
OverlapLoopThrows(rs) ==
    \E i, j \in 1..Len(rs) :
        /\ i < j
        /\ \/ ~Has(rs[i], "meta")
           \/ ~IsGenericSlug(rs[i]) /\ ~Has(rs[j], "meta")

RECURSIVE PerRecipeErrors(_, _)
PerRecipeErrors(rs, i) ==
    IF i > Len(rs) THEN <<>> ELSE validateRecipe(rs[i]).errors \o PerRecipeErrors(rs, i + 1)

RECURSIVE PerRecipeWarnings(_, _)
PerRecipeWarnings(rs, i) ==
    IF i > Len(rs) THEN <<>> ELSE validateRecipe(rs[i]).warnings \o PerRecipeWarnings(rs, i + 1)

\* validateAllRecipes with the overlap warnings ahead of the per-recipe warnings.
validateAllRecipes_OverlapFirst(rs) ==
    IF OverlapLoopThrows(rs)
    THEN Throws(Error("Cannot read properties of undefined (reading 'slug')"))
    ELSE LET allErrors == PerRecipeErrors(rs, 1) \o DuplicateSlugErrors(rs, 1)
             allWarnings == OverlapWarnings(rs, 1, 2) \o PerRecipeWarnings(rs, 1)
         IN  Returns([valid |-> Len(allErrors) = 0, errors |-> allErrors, warnings |-> allWarnings])

\* validateAllRecipes: how the call ends.
validateAllRecipes(rs) ==
    IF OverlapLoopThrows(rs)
    THEN Throws(Error("Cannot read properties of undefined (reading 'slug')"))
    ELSE LET allErrors == PerRecipeErrors(rs, 1) \o DuplicateSlugErrors(rs, 1)
             allWarnings == PerRecipeWarnings(rs, 1) \o OverlapWarnings(rs, 1, 2)
         IN  Returns([valid |-> Len(allErrors) = 0, errors |-> allErrors, warnings |-> allWarnings])

(***************************************************************************)
(* Recipes handed to the validator: a well-formed recipe with a set of     *)
(* defects applied, as the tests of validate.test.ts build them.           *)
(***************************************************************************)

\* Bounds: the defects applied to one recipe, and the length of a recipe list.
MaxDefects == 2

MaxRecipes == 2

Without(r, k) == [x \in (DOMAIN r) \ {k} |-> r[x]]

With(r, k, v) == [x \in (DOMAIN r) \cup {k} |-> IF x = k THEN v ELSE r[x]]

RECURSIVE RepeatStr(_, _)
RepeatStr(c, n) ==
    IF n = 0 THEN ""
    ELSE LET half == RepeatStr(c, n \div 2)
         IN  half \o half \o (IF n % 2 = 1 THEN c ELSE "")

WebUrl(sub, host, path) ==
    [scheme |-> "https://", sub |-> sub, host |-> host, path |-> path, slash |-> FALSE]

ExEbay == WebUrl("www.", "ebay.com", <<"itm", "123">>)

\* An eBay listing URL whose text also holds an Amazon domain.
ExEbayAmazon == WebUrl("www.", "ebay.com", <<"itm", "amazon.com">>)

ExAmazon == WebUrl("www.", "amazon.com", <<"item", "123">>)

ExOther == WebUrl("", "example.com", <<>>)

\* Text that new URL() rejects.
ExNotAUrl == [scheme |-> "", sub |-> "", host |-> "not-a-url", path |-> <<>>, slash |-> FALSE]

WellFormedRecipe(slug, match, exampleUrl) ==
    [meta |-> [slug |-> slug, name |-> "Test", description |-> "Test desc test test test",
               icon |-> "*", category |-> "other", tags |-> <<"test">>,
               maintainers |-> <<"test">>,
               richExamples |-> <<[url |-> exampleUrl, title |-> "Example"]>>],
     match |-> match,
     fields |-> << <<"title", [type |-> "string", label |-> "Title", primary |-> TRUE]>> >>,
     extract |-> [kind |-> "function"],
     defaultAlerts |-> <<[id |-> "changed", label |-> "Changed", description |-> "It changed",
                          when |-> "title != previous.title"]>>]

SoftDefects == {"long-name", "short-description", "long-description", "no-tags", "empty-tags",
                "no-primary", "no-alerts", "no-examples", "empty-examples"}

\* The defects of the slug.
SlugDefects == {"no-slug", "empty-slug", "bad-slug", "upper-slug", "underscore-slug"}

HardDefects == {"no-meta", "no-slug", "empty-slug", "bad-slug", "upper-slug", "underscore-slug",
                "no-name", "no-description", "no-icon",
                "no-category", "bad-category", "no-maintainers", "empty-maintainers",
                "no-match", "bad-match", "no-fields", "empty-fields", "field-no-type",
                "field-no-label", "no-extract", "bad-extract", "alert-no-id", "alert-dup-id",
                "alert-no-label", "alert-no-when", "bad-example-url", "example-no-title",
                "example-not-owned"}

\* Variations that are no defect.
Variations == {"predicate-match", "empty-alerts", "hyphen-slug"}

DefectOrder ==
    <<"predicate-match", "empty-alerts", "hyphen-slug",
      "long-name", "short-description", "long-description", "no-tags", "empty-tags",
      "no-primary", "no-alerts", "no-examples", "empty-examples",
      "bad-slug", "upper-slug", "underscore-slug", "empty-slug", "no-slug",
      "no-name", "no-description", "no-icon",
      "no-category", "bad-category", "no-maintainers", "empty-maintainers",
      "no-match", "bad-match", "no-fields", "empty-fields", "field-no-type",
      "field-no-label", "no-extract", "bad-extract", "alert-no-id", "alert-dup-id",
      "alert-no-label", "alert-no-when", "bad-example-url", "example-no-title",
      "example-not-owned", "no-meta">>

\* Recipe r with one attribute of its meta object removed or replaced.
WithoutMeta(r, k) == With(r, "meta", Without(r.meta, k))

WithMeta(r, k, v) == With(r, "meta", With(r.meta, k, v))

\* The first example, field descriptor or alert of recipe r, when it has one.
HasExample(r) == Has(r.meta, "richExamples") /\ Len(r.meta.richExamples) > 0

HasField(r) == Has(r, "fields") /\ Len(r.fields) > 0

HasAlert(r) == Has(r, "defaultAlerts") /\ Len(r.defaultAlerts) > 0

\* Recipe r with its first example, field descriptor or alert replaced.
SetExample(r, ex) == WithMeta(r, "richExamples", <<ex>> \o Tail(r.meta.richExamples))

SetField(r, fd) == With(r, "fields", << <<r.fields[1][1], fd>> >> \o Tail(r.fields))

SetAlert(r, al) == With(r, "defaultAlerts", <<al>> \o Tail(r.defaultAlerts))

ApplyDefect(d, r) ==
    CASE d = "no-meta" -> Without(r, "meta")
      [] d = "no-slug" -> WithoutMeta(r, "slug")
      [] d = "empty-slug" -> WithMeta(r, "slug", "")
      [] d = "bad-slug" -> WithMeta(r, "slug", "Bad Slug!")
      [] d = "upper-slug" -> WithMeta(r, "slug", "Test")
      [] d = "underscore-slug" -> WithMeta(r, "slug", "my_recipe")
      [] d = "hyphen-slug" -> WithMeta(r, "slug", "my-recipe-2")
      [] d = "no-name" -> WithoutMeta(r, "name")
      [] d = "long-name" -> WithMeta(r, "name", RepeatStr("n", MaxNameLength + 1))
      [] d = "no-description" -> WithMeta(r, "description", "")
      [] d = "short-description" ->
            WithMeta(r, "description", RepeatStr("d", MinDescriptionLength - 1))
      [] d = "long-description" ->
            WithMeta(r, "description", RepeatStr("d", MaxDescriptionLength + 1))
      [] d = "no-icon" -> WithoutMeta(r, "icon")
      [] d = "no-category" -> WithoutMeta(r, "category")
      [] d = "bad-category" -> WithMeta(r, "category", "invalid-category")
      [] d = "no-maintainers" -> WithoutMeta(r, "maintainers")
      [] d = "empty-maintainers" -> WithMeta(r, "maintainers", <<>>)
      [] d = "no-tags" -> WithoutMeta(r, "tags")
      [] d = "empty-tags" -> WithMeta(r, "tags", <<>>)
      [] d = "no-match" -> Without(r, "match")
      [] d = "bad-match" -> With(r, "match", [kind |-> "string", of |-> "test"])
      [] d = "predicate-match" -> With(r, "match", [kind |-> "function", of |-> "generic"])
      [] d = "no-fields" -> Without(r, "fields")
      [] d = "empty-fields" -> With(r, "fields", <<>>)
      [] d = "field-no-type" /\ HasField(r) -> SetField(r, Without(r.fields[1][2], "type"))
      [] d = "field-no-label" /\ HasField(r) -> SetField(r, Without(r.fields[1][2], "label"))
      [] d = "no-primary" /\ HasField(r) -> SetField(r, Without(r.fields[1][2], "primary"))
      [] d = "no-extract" -> Without(r, "extract")
      [] d = "bad-extract" -> With(r, "extract", [kind |-> "string"])
      [] d = "no-alerts" -> Without(r, "defaultAlerts")
      [] d = "empty-alerts" -> With(r, "defaultAlerts", <<>>)
      [] d = "alert-no-id" /\ HasAlert(r) -> SetAlert(r, Without(r.defaultAlerts[1], "id"))
      [] d = "alert-dup-id" /\ HasAlert(r) ->
            With(r, "defaultAlerts", r.defaultAlerts \o <<r.defaultAlerts[1]>>)
      [] d = "alert-no-label" /\ HasAlert(r) -> SetAlert(r, Without(r.defaultAlerts[1], "label"))
      [] d = "alert-no-when" /\ HasAlert(r) -> SetAlert(r, Without(r.defaultAlerts[1], "when"))
      [] d = "no-examples" -> WithoutMeta(r, "richExamples")
      [] d = "empty-examples" -> WithMeta(r, "richExamples", <<>>)
      [] d = "bad-example-url" /\ HasExample(r) ->
            SetExample(r, With(r.meta.richExamples[1], "url", ExNotAUrl))
      [] d = "example-no-title" /\ HasExample(r) ->
            SetExample(r, With(r.meta.richExamples[1], "title", "  "))
      [] d = "example-not-owned" /\ HasExample(r) ->
            SetExample(r, With(r.meta.richExamples[1], "url", ExOther))
      [] OTHER -> r

\* Recipe r with the defects of D applied, in the order of DefectOrder.
RECURSIVE ApplyDefects(_, _, _)
ApplyDefects(r, D, i) ==
    IF i > Len(DefectOrder) THEN r
    ELSE ApplyDefects(IF DefectOrder[i] \in D THEN ApplyDefect(DefectOrder[i], r) ELSE r, D, i + 1)

\* The subsets of S of at most n elements.
RECURSIVE SubsetsUpTo(_, _)
SubsetsUpTo(S, n) ==
    IF n = 0 THEN {{}}
    ELSE LET smaller == SubsetsUpTo(S, n - 1)
         IN  smaller \cup {D \cup {d} : D \in smaller, d \in S}

DefectSets == SubsetsUpTo(SoftDefects \cup HardDefects \cup Variations, MaxDefects)

ebayMatch == [kind |-> "RegExp", of |-> "ebay"]

amazonMatch == [kind |-> "RegExp", of |-> "amazon"]

\* The members of the recipe lists handed to validateAllRecipes.
ListBases ==
    {WellFormedRecipe("alpha", ebayMatch, ExEbayAmazon),
     WellFormedRecipe("beta", amazonMatch, ExAmazon),
     WellFormedRecipe("alpha", amazonMatch, ExAmazon),
     WellFormedRecipe("gamma", [kind |-> "function", of |-> "generic"], ExEbay),
     WellFormedRecipe("generic", [kind |-> "function", of |-> "generic"], ExEbayAmazon)}

ListDefectSets == {{}, {"no-meta"}, {"no-slug"}, {"empty-slug"}, {"no-primary"}}

ListMembers == {ApplyDefects(b, D, 1) : b \in ListBases, D \in ListDefectSets}

RecipeLists == SeqsUpTo(ListMembers, MaxRecipes)

\* The bundled lists handed to validateAllRecipes (validate.test.ts 150).
BundledLists == {allRecipes, recipes}

(***************************************************************************)
(* toClientRecipe (index.ts): the serialisable summary of a recipe.        *)
(***************************************************************************)

\* RegExp.prototype.source of the `match` pattern of recipe `slug`.
RegExpSource(slug) ==
    CASE slug = "amazon" ->
            "amazon\\.(com|co\\.uk|de|fr|es|it|ca|com\\.au|co\\.jp|in|com\\.mx|com\\.br|nl|se|pl|be|sg|ae|sa|eg|com\\.tr)"
      [] slug = "ebay" ->
            "^https?:\\/\\/(www\\.)?ebay\\.(com|co\\.uk|de|fr|ca|com\\.au|it|es)\\/itm\\/"
      [] slug = "github" ->
            "^https?:\\/\\/(www\\.)?github\\.com\\/[^/]+\\/[^/]+\\/?$"
      [] slug = "npm" ->
            "^https?:\\/\\/(www\\.)?npmjs\\.com\\/package\\/"
      [] slug = "reddit" ->
            "^https?:\\/\\/(www\\.|old\\.|new\\.)?reddit\\.com\\/r\\/[^/]+\\/comments\\/"
      [] slug = "twitter" ->
            "^https?:\\/\\/(www\\.)?(twitter\\.com|x\\.com)\\/[^/]+\\/status\\/\\d+"
      [] slug = "youtube" ->
            "^https?:\\/\\/(www\\.)?(youtube\\.com|youtu\\.be)\\/"
      [] slug = "hackernews" ->
            "^https?:\\/\\/(www\\.)?news\\.ycombinator\\.com\\/(item|front|news|newest|best)"

\* recipe.match instanceof RegExp ? recipe.match.source : null
MatchPattern(recipe) ==
    IF Has(recipe, "match") /\ recipe.match.kind = "RegExp"
    THEN Str(RegExpSource(recipe.match.of))
    ELSE Null

\* r.k as a JavaScript value: undefined when r has no attribute k.
Attr(r, k) == IF Has(r, k) THEN Str(r[k]) ELSE Undefined

\* r.k || []
ListOrEmpty(r, k) == IF Has(r, k) THEN r[k] ELSE <<>>

\* field.primary || false
PrimaryOrFalse(field) == Has(field, "primary") /\ field.primary

ClientExample(ex) ==
    [url |-> ex.url, title |-> Attr(ex, "title"),
     subtitle |-> Attr(ex, "subtitle"), image |-> Attr(ex, "image")]

ClientField(entry) ==
    [key |-> entry[1], label |-> Attr(entry[2], "label"), type |-> Attr(entry[2], "type"),
     primary |-> PrimaryOrFalse(entry[2])]

ClientAlert(a) ==
    [id |-> Attr(a, "id"), label |-> Attr(a, "label"), description |-> Attr(a, "description"),
     when |-> Attr(a, "when"), icon |-> Attr(a, "icon")]

\* list.map(f)
Map(list, f(_)) == [i \in 1..Len(list) |-> f(list[i])]

\* The summary, for a recipe whose meta.richExamples and fields can be read.
ClientRecipe(recipe) ==
    [slug |-> Attr(recipe.meta, "slug"),
     name |-> Attr(recipe.meta, "name"),
     description |-> Attr(recipe.meta, "description"),
     icon |-> Attr(recipe.meta, "icon"),
     category |-> Attr(recipe.meta, "category"),
     tags |-> ListOrEmpty(recipe.meta, "tags"),
     richExamples |-> Map(recipe.meta.richExamples, ClientExample),
     matchPattern |-> MatchPattern(recipe),
     fields |-> Map(recipe.fields, ClientField),
     defaultAlerts |-> Map(ListOrEmpty(recipe, "defaultAlerts"), ClientAlert)]

\* toClientRecipe: how the call ends.  recipe.meta.slug, recipe.meta.richExamples.map
\* and Object.entries(recipe.fields) raise a TypeError on a missing object.
toClientRecipe(recipe) ==
    IF ~Has(recipe, "meta") THEN Throws(Error("Cannot read properties of undefined (reading 'slug')"))
    ELSE IF ~Has(recipe.meta, "richExamples")
    THEN Throws(Error("Cannot read properties of undefined (reading 'map')"))
    ELSE IF ~Has(recipe, "fields")
    THEN Throws(Error("Cannot convert undefined or null to object"))
    ELSE Returns(ClientRecipe(recipe))

(***************************************************************************)
(* Specification SpecValidate: the validator surface and the summary of    *)
(* the recipes it is handed.                                               *)
(***************************************************************************)

ValidateRecipe ==
    /\ pc = "idle"
    /\ \E D \in DefectSets :
          LET recipe == ApplyDefects(WellFormedRecipe("test", ebayMatch, ExEbay), D, 1)
          IN  /\ call' = [op |-> "validateRecipe", recipe |-> recipe, defects |-> D]
              /\ ret' = <<Returns(validateRecipe(recipe))>>
    /\ pc' = "returned"
    /\ UNCHANGED data

ValidateAllRecipes ==
    /\ pc = "idle"
    /\ \E rs \in RecipeLists \cup BundledLists :
          /\ call' = [op |-> "validateAllRecipes", recipes |-> rs]
          /\ ret' = <<validateAllRecipes(rs)>>
    /\ pc' = "returned"
    /\ UNCHANGED data

\* The recipes handed to toClientRecipe: the bundled recipes, and the test
\* recipe with defects.
ClientInputs ==
    {[recipe |-> allRecipes[i], defects |-> {}] : i \in 1..Len(allRecipes)}
        \cup {[recipe |-> ApplyDefects(WellFormedRecipe("test", ebayMatch, ExEbay), D, 1),
                defects |-> D] : D \in DefectSets}

ToClientRecipe ==
    /\ pc = "idle"
    /\ \E in \in ClientInputs :
          /\ call' = [op |-> "toClientRecipe", recipe |-> in.recipe, defects |-> in.defects]
          /\ ret' = <<toClientRecipe(in.recipe)>>
    /\ pc' = "returned"
    /\ UNCHANGED data

NextValidate == ValidateRecipe \/ ValidateAllRecipes \/ ToClientRecipe \/ Return

SpecValidate == Init /\ [][NextValidate]_vars


\* The messages of the soft findings (lines 197, 203, 205, 223, 257, 288, 318).
SoftMessages ==
    {"Name should be under 50 characters",
     "Description should be at least 20 characters",
     "Description should be under 200 characters",
     "Recipe should have at least one tag for discoverability",
     "Recipe should have at least one primary field",
     "Recipe should have at least one default alert",
     "Recipe should have rich examples for better UX"}

\* A validator call has returned a ValidationResult.
ValidationDone ==
    /\ pc = "returned"
    /\ call.op \in {"validateRecipe", "validateAllRecipes"}
    /\ ret[1].kind = "return"

\* C10: a validation result has valid = TRUE exactly when its error list is
\* empty; every entry of the error list has severity "error" and none is a soft
\* finding; every entry of the warning list has severity "warning"; a recipe
\* whose only defects are soft ones (long name, short or long description, no
\* tags, no primary field, no default alerts, no rich examples) is valid and
\* has its findings in the warning list; a list of recipes whose members have
\* no errors of their own and no repeated slug is valid whatever its warnings.
C10_ValidIffNoErrors ==
    ValidationDone =>
        LET v == ret[1].value
        IN  /\ v.valid <=> v.errors = <<>>
            /\ \A i \in 1..Len(v.errors) :
                  v.errors[i].severity = "error" /\ v.errors[i].message \notin SoftMessages
            /\ \A i \in 1..Len(v.warnings) : v.warnings[i].severity = "warning"
            /\ (call.op = "validateRecipe" /\ call.defects \subseteq SoftDefects \cup Variations)
                  => /\ v.valid
                     /\ (call.defects \cap SoftDefects # {}) => v.warnings # <<>>
            /\ (/\ call.op = "validateAllRecipes"
                /\ \A i \in 1..Len(call.recipes) : validateRecipe(call.recipes[i]).errors = <<>>
                /\ DuplicateSlugErrors(call.recipes, 1) = <<>>)
                  => v.valid

\* A recipe without a primary field and without tags was validated: it is valid
\* and both findings are warnings.
C10_Witness_SoftFindingsOnly ==
    /\ ValidationDone
    /\ call.op = "validateRecipe"
    /\ call.defects = {"no-primary", "no-tags"}
    /\ ret[1].value.valid
    /\ Len(ret[1].value.warnings) = 2


\* validateRecipe has returned for a recipe that has a meta object.
RecipeValidated ==
    /\ ValidationDone
    /\ call.op = "validateRecipe"
    /\ Has(call.recipe, "meta")

\* The errors of the returned result whose field path is f.
ErrorsAt(f) ==
    LET At(e) == e.field = f
    IN  SelectSeq(ret[1].value.errors, At)

\* C11: validateRecipe yields exactly one error with field path 'meta.slug'
\* when the slug is missing (or empty), saying that a slug is required, and
\* exactly one, stating the format rule, when the slug has a character that is
\* no lower-case letter, digit or hyphen; a slug of such characters only yields
\* no slug error; and when the recipe has no other mandatory defect, the slug
\* errors are all its errors.
C11_SlugErrors ==
    RecipeValidated =>
        LET meta == call.recipe.meta
            slugErrors == ErrorsAt("meta.slug")
        IN  /\ (~Has(meta, "slug") \/ meta.slug = "") =>
                   slugErrors = <<Finding("unknown", "meta.slug", "Recipe must have a slug", "error")>>
            /\ (Has(meta, "slug") /\ meta.slug \in {"Bad Slug!", "Test", "my_recipe"}) =>
                   slugErrors = <<Finding(meta.slug, "meta.slug",
                                          "Slug must be lowercase alphanumeric with hyphens only",
                                          "error")>>
            /\ (Has(meta, "slug") /\ meta.slug \in {"test", "my-recipe-2"}) => slugErrors = <<>>
            /\ (call.defects \cap HardDefects) \subseteq SlugDefects =>
                   ret[1].value.errors = slugErrors

\* C11 witness: an otherwise well-formed recipe whose slug has an upper-case
\* letter was validated: it is invalid with one error, at 'meta.slug'.
C11_Witness_UpperCaseSlug ==
    /\ RecipeValidated
    /\ call.defects = {"upper-slug"}
    /\ call.recipe.meta.slug = "Test"
    /\ ~ret[1].value.valid
    /\ Len(ret[1].value.errors) = 1
    /\ ret[1].value.errors[1].field = "meta.slug"

\* validateAllRecipes has returned a ValidationResult.
ListValidated == ValidationDone /\ call.op = "validateAllRecipes"

\* The positions of list rs whose recipe has slug s.
PositionsOf(rs, s) ==
    {k \in 1..Len(rs) : Has(rs[k], "meta") /\ Has(rs[k].meta, "slug") /\ rs[k].meta.slug = s}

\* The slugs of the recipes of list rs.
SlugsIn(rs) ==
    {rs[k].meta.slug : k \in {k \in 1..Len(rs) : Has(rs[k], "meta") /\ Has(rs[k].meta, "slug")}}

\* The duplicate-slug error for slug s occurring n times.
DuplicateError(s, n) ==
    Finding(s, "meta.slug", "Duplicate slug found " \o ToString(n) \o " times", "error")

\* The positions of the error list errs that hold a duplicate-slug error for s.
DuplicateErrorsFor(errs, s, len) ==
    {i \in 1..Len(errs) : \E n \in 0..len : errs[i] = DuplicateError(s, n)}

\* C12: in every result of validateAllRecipes, each non-empty slug that occurs
\* n > 1 times in the list has exactly one error with field 'meta.slug' that
\* names the slug and the count n, and the result is not valid; a slug that
\* occurs once, and the empty slug, have no duplicate-slug error.
C12_DuplicateSlugs ==
    ListValidated =>
        \A s \in SlugsIn(call.recipes) :
            LET n == Cardinality(PositionsOf(call.recipes, s))
                errs == ret[1].value.errors
                dups == DuplicateErrorsFor(errs, s, Len(call.recipes))
            IN  IF s # "" /\ n > 1
                THEN /\ Cardinality(dups) = 1
                     /\ \A i \in dups : errs[i] = DuplicateError(s, n)
                     /\ ~ret[1].value.valid
                ELSE dups = {}

\* C12 witness: a list of two recipes that share the slug 'alpha' and have no
\* other error was validated; the result holds the one error naming 'alpha'
\* and the count 2.
C12_Witness_SharedSlug ==
    /\ ListValidated
    /\ Len(call.recipes) = 2
    /\ PositionsOf(call.recipes, "alpha") = {1, 2}
    /\ ret[1].value.errors = <<DuplicateError("alpha", 2)>>
    /\ ~ret[1].value.valid

\* The number of examples of recipe r.
ExampleCount(r) ==
    IF Has(r, "meta") /\ Has(r.meta, "richExamples") THEN Len(r.meta.richExamples) ELSE 0

\* The triples <<i, j, k>> of list rs the overlap check is about: positions
\* i < j of recipes that are not the generic recipe, and an example k of rs[i]
\* whose URL rs[j].match accepts.
OverlapTriples(rs) ==
    {t \in UNION {{<<i, j, k>> : k \in 1..ExampleCount(rs[i])} :
                      i \in 1..Len(rs), j \in 1..Len(rs)} :
        /\ t[1] < t[2]
        /\ Has(rs[t[2]], "meta")
        /\ MetaSlugText(rs[t[1]]) # "generic" /\ MetaSlugText(rs[t[2]]) # "generic"
        /\ MatchAccepts(rs[t[2]], rs[t[1]].meta.richExamples[t[3]].url)}

\* The warning for triple t: attributed to rs[i], naming the URL and rs[j].
OverlapFinding(rs, t) ==
    Finding(MetaSlugText(rs[t[1]]), "match",
            "Example \"" \o UrlText(rs[t[1]].meta.richExamples[t[3]].url)
                \o "\" also matches " \o MetaSlugText(rs[t[2]]) \o " recipe",
            "warning")

\* How often finding f occurs in the list fs.
Occurrences(fs, f) == Cardinality({n \in 1..Len(fs) : fs[n] = f})

\* C13: in every result of validateAllRecipes, each example URL of rs[i] that
\* the match (RegExp or function) of a later recipe rs[j] accepts, neither
\* being the generic recipe, has one warning with the slug of rs[i] naming the
\* URL and the slug of rs[j]; every warning with field 'match' is such a
\* warning, so none involves the generic recipe; no error carries an overlap
\* message, and valid is decided by the per-recipe errors and the duplicate
\* slugs alone.
C13_OverlapWarnings ==
    ListValidated =>
        LET rs == call.recipes
            v == ret[1].value
        IN  /\ \A t \in OverlapTriples(rs) :
                  Occurrences(v.warnings, OverlapFinding(rs, t))
                      = Cardinality({u \in OverlapTriples(rs) :
                                        OverlapFinding(rs, u) = OverlapFinding(rs, t)})
            /\ \A n \in 1..Len(v.warnings) :
                  v.warnings[n].field = "match" =>
                      /\ v.warnings[n].recipe # "generic"
                      /\ \E t \in OverlapTriples(rs) : v.warnings[n] = OverlapFinding(rs, t)
            /\ \A n \in 1..Len(v.errors), t \in OverlapTriples(rs) :
                  v.errors[n].message # OverlapFinding(rs, t).message
            /\ v.valid <=>
                  /\ \A i \in 1..Len(rs) : validateRecipe(rs[i]).errors = <<>>
                  /\ \A s \in SlugsIn(rs) \ {""} : Cardinality(PositionsOf(rs, s)) = 1

\* C13 witness: the eBay recipe 'alpha', whose example URL holds an Amazon
\* domain, was validated before the Amazon recipe 'beta': the result is valid
\* and holds the overlap warning attributed to 'alpha'.
C13_Witness_ExampleOwnedTwice ==
    /\ ListValidated
    /\ Len(call.recipes) = 2
    /\ PositionsOf(call.recipes, "alpha") = {1} /\ PositionsOf(call.recipes, "beta") = {2}
    /\ OverlapTriples(call.recipes) = {<<1, 2, 1>>}
    /\ ret[1].value.valid
    /\ Occurrences(ret[1].value.warnings, OverlapFinding(call.recipes, <<1, 2, 1>>)) = 1

\* C14: every call of validateRecipe and of validateAllRecipes, malformed
\* recipes included, ends by returning a ValidationResult and never by
\* throwing.
C14_ValidatorNeverThrows ==
    (pc = "returned" /\ call.op \in {"validateRecipe", "validateAllRecipes"}) =>
        /\ ret[1].kind = "return"
        /\ DOMAIN ret[1].value = {"valid", "errors", "warnings"}

\* validateAllRecipes(allRecipes) has ended.
CatalogValidated ==
    pc = "returned" /\ call.op = "validateAllRecipes" /\ call.recipes = allRecipes

\* C15: validateAllRecipes(allRecipes) returns valid = TRUE and no errors;
\* each bundled recipe, the generic one included, has no error of its own; the
\* bundled slugs are pairwise distinct; each example URL of a bundled recipe is
\* accepted by that recipe's match.
C15_BundledCatalogValid ==
    CatalogValidated =>
        /\ ret[1].kind = "return"
        /\ ret[1].value.valid
        /\ ret[1].value.errors = <<>>
        /\ \A i \in 1..Len(allRecipes) :
              /\ validateRecipe(allRecipes[i]).valid
              /\ \A j \in 1..Len(allRecipes) :
                    i # j => allRecipes[i].meta.slug # allRecipes[j].meta.slug
              /\ \A k \in 1..Len(allRecipes[i].meta.richExamples) :
                    /\ UrlParses(allRecipes[i].meta.richExamples[k].url)
                    /\ MatchAccepts(allRecipes[i], allRecipes[i].meta.richExamples[k].url)

\* C15 witness: the nine bundled recipes were validated as one list and the
\* result is valid.
C15_Witness_CatalogValidated ==
    /\ CatalogValidated
    /\ Len(call.recipes) = 9
    /\ call.recipes[9].meta.slug = "generic"
    /\ ret[1].kind = "return"
    /\ ret[1].value.valid

\* toClientRecipe has ended for a recipe that validateRecipe accepts.
ValidRecipeConverted ==
    /\ pc = "returned"
    /\ call.op = "toClientRecipe"
    /\ validateRecipe(call.recipe).valid

\* A value of the summary that is plain data: a string, null or undefined.
IsPlainText(v) == v.t \in {"string", "null", "undefined"}

\* C20: toClientRecipe succeeds for every recipe that validateRecipe accepts;
\* the summary's matchPattern is the source text of a RegExp match and null for
\* a predicate; its fields are the keys of recipe.fields in order, one entry
\* each, with primary FALSE where the schema omits it; tags and defaultAlerts
\* are empty lists when the recipe has none; no value of the summary is a
\* function or a pattern object.
C20_ClientRecipeIsPlainData ==
    ValidRecipeConverted =>
        /\ ret[1].kind = "return"
        /\ LET r == call.recipe
               c == ret[1].value
           IN  /\ IsPlainText(c.matchPattern)
               /\ (r.match.kind = "RegExp") => c.matchPattern = Str(RegExpSource(r.match.of))
               /\ (r.match.kind = "function") => c.matchPattern = Null
               /\ Len(c.fields) = Len(r.fields)
               /\ \A i \in 1..Len(r.fields) :
                     /\ c.fields[i].key = r.fields[i][1]
                     /\ c.fields[i].primary
                           = (Has(r.fields[i][2], "primary") /\ r.fields[i][2].primary)
                     /\ IsPlainText(c.fields[i].label) /\ IsPlainText(c.fields[i].type)
               /\ ~Has(r.meta, "tags") => c.tags = <<>>
               /\ ~Has(r, "defaultAlerts") => c.defaultAlerts = <<>>

\* The number of findings of the given kind ("errors", "warnings") that
\* validateRecipe reports for the recipes of rs before position i.
RECURSIVE FindingsBefore(_, _, _)
FindingsBefore(rs, i, kind) ==
    IF i <= 1 THEN 0
    ELSE FindingsBefore(rs, i - 1, kind) + Len(validateRecipe(rs[i - 1])[kind])

\* The findings of list fs that belong to rs[i]: those after the findings of
\* the recipes before it.
SliceOf(fs, rs, i, kind) ==
    SubSeq(fs, FindingsBefore(rs, i, kind) + 1, FindingsBefore(rs, i + 1, kind))

\* The slugs that occur more than once in rs.
RepeatedSlugs(rs) == {s \in SlugsIn(rs) \ {""} : Cardinality(PositionsOf(rs, s)) > 1}

\* C27: the errors of validateAllRecipes(rs) are the errors of validateRecipe
\* for each recipe of rs in list order, followed by one duplicate-slug error
\* for each repeated slug and nothing else; its warnings are the warnings of
\* validateRecipe for each recipe in list order, followed by one overlap
\* warning for each overlap and nothing else.
C27_AggregatesPerRecipeFindings ==
    ListValidated =>
        LET rs == call.recipes
            v == ret[1].value
            n == Len(call.recipes) + 1
        IN  /\ \A i \in 1..Len(rs) :
                  /\ SliceOf(v.errors, rs, i, "errors") = validateRecipe(rs[i]).errors
                  /\ SliceOf(v.warnings, rs, i, "warnings") = validateRecipe(rs[i]).warnings
            /\ Len(v.errors) = FindingsBefore(rs, n, "errors") + Cardinality(RepeatedSlugs(rs))
            /\ \A k \in (FindingsBefore(rs, n, "errors") + 1)..Len(v.errors) :
                  \E s \in RepeatedSlugs(rs) :
                      v.errors[k] = DuplicateError(s, Cardinality(PositionsOf(rs, s)))
            /\ Len(v.warnings)
                  = FindingsBefore(rs, n, "warnings") + Cardinality(OverlapTriples(rs))
            /\ \A k \in (FindingsBefore(rs, n, "warnings") + 1)..Len(v.warnings) :
                  \E t \in OverlapTriples(rs) : v.warnings[k] = OverlapFinding(rs, t)

\* C27 witness: a list of two recipes was validated whose first recipe has a
\* warning of its own, whose slugs are the same, and whose first example is
\* accepted by the second recipe: the result holds the per-recipe warning, then
\* the overlap warning, and the duplicate-slug error.
C27_Witness_AllKindsOfFindings ==
    /\ ListValidated
    /\ Len(call.recipes) = 2
    /\ validateRecipe(call.recipes[1]).warnings # <<>>
    /\ RepeatedSlugs(call.recipes) = {"alpha"}
    /\ OverlapTriples(call.recipes) = {<<1, 2, 1>>}
    /\ Len(ret[1].value.warnings) = Len(validateRecipe(call.recipes[1]).warnings) + 1
    /\ ret[1].value.errors = <<DuplicateError("alpha", 2)>>

\* The field paths of the mandatory attributes of recipe r, its meta object
\* given: the fixed paths and one path for each field of the schema.
MandatoryPaths(r) ==
    {"meta.name", "meta.description", "meta.icon", "meta.category", "meta.maintainers",
     "match", "fields", "extract", "defaultAlerts"}
        \cup {"fields." \o r.fields[i][1] : i \in 1..Len(ListOrEmpty(r, "fields"))}

\* Alert i of the list lacks an id, a label or a condition, or repeats the id
\* of an earlier alert.
AlertFails(alerts, i) ==
    \/ ~TruthyStr(alerts[i], "id")
    \/ ~TruthyStr(alerts[i], "label")
    \/ ~TruthyStr(alerts[i], "when")
    \/ \E k \in 1..(i - 1) : TruthyStr(alerts[k], "id") /\ alerts[k].id = alerts[i].id

\* Recipe r fails the mandatory check of the attribute at path.
FailsAt(r, path) ==
    CASE path = "meta.name" -> ~TruthyStr(r.meta, "name")
      [] path = "meta.description" -> ~TruthyStr(r.meta, "description")
      [] path = "meta.icon" -> ~TruthyStr(r.meta, "icon")
      [] path = "meta.category" ->
            ~TruthyStr(r.meta, "category")
                \/ r.meta.category \notin {VALID_CATEGORIES[i] : i \in 1..Len(VALID_CATEGORIES)}
      [] path = "meta.maintainers" ->
            ~Has(r.meta, "maintainers") \/ r.meta.maintainers = <<>>
      [] path = "match" -> ~Has(r, "match") \/ r.match.kind \notin {"RegExp", "function"}
      [] path = "fields" -> ListOrEmpty(r, "fields") = <<>>
      [] path = "extract" -> ~Has(r, "extract") \/ r.extract.kind # "function"
      [] path = "defaultAlerts" ->
            \E i \in 1..Len(ListOrEmpty(r, "defaultAlerts")) : AlertFails(r.defaultAlerts, i)
      [] OTHER ->
            \E i \in 1..Len(r.fields) :
                /\ path = "fields." \o r.fields[i][1]
                /\ ~TruthyStr(r.fields[i][2], "type") \/ ~TruthyStr(r.fields[i][2], "label")

\* C25: for a recipe with a meta object, each mandatory check that fails (name,
\* description, icon, category, maintainers, match, field schema, a field's
\* type or label, extract, an alert's id, label or condition) has an error at
\* the field path of its attribute and the result is not valid; a mandatory
\* check that passes has no error at its path.
C25_FailedCheckNamesItsField ==
    RecipeValidated =>
        \A path \in MandatoryPaths(call.recipe) :
            IF FailsAt(call.recipe, path)
            THEN ErrorsAt(path) # <<>> /\ ~ret[1].value.valid
            ELSE ErrorsAt(path) = <<>>

\* C25 witness: a recipe with a category outside the enumeration and a field
\* without a label was validated; both paths have an error.
C25_Witness_CategoryAndLabel ==
    /\ RecipeValidated
    /\ call.defects = {"bad-category", "field-no-label"}
    /\ Len(ErrorsAt("meta.category")) = 1
    /\ Len(ErrorsAt("fields.title")) = 1
    /\ Len(ret[1].value.errors) = 2
    /\ ~ret[1].value.valid

\* The returned result has an error at 'meta.richExamples' with this message.
ExampleErrorSays(message) ==
    \E k \in 1..Len(ret[1].value.errors) :
        /\ ret[1].value.errors[k].field = "meta.richExamples"
        /\ ret[1].value.errors[k].message = message

\* C26: every example whose url does not parse, and every example whose url
\* the recipe's own match does not accept, has an error at 'meta.richExamples'
\* that names the url, and the result is not valid; a recipe with examples
\* whose match accepts none of them is not valid.
C26_ExamplesMustBeOwned ==
    RecipeValidated =>
        LET r == call.recipe
            examples == ListOrEmpty(r.meta, "richExamples")
        IN  /\ \A i \in 1..Len(examples) :
                /\ ~UrlParses(examples[i].url) =>
                       /\ ExampleErrorSays("Invalid example URL: " \o UrlText(examples[i].url))
                       /\ ~ret[1].value.valid
                /\ Has(r, "match") /\ ~MatchAccepts(r, examples[i].url) =>
                       /\ ExampleErrorSays("Example URL does not match recipe pattern: "
                                               \o UrlText(examples[i].url))
                       /\ ~ret[1].value.valid
            /\ (examples # <<>> /\ \A i \in 1..Len(examples) : ~MatchAccepts(r, examples[i].url))
                   => ~ret[1].value.valid

\* C26 witness: a recipe whose only defect is an example that parses and that
\* its pattern does not accept was validated: one error, at 'meta.richExamples'.
C26_Witness_ExampleNotOwned ==
    /\ RecipeValidated
    /\ call.defects = {"example-not-owned"}
    /\ UrlParses(call.recipe.meta.richExamples[1].url)
    /\ ~MatchAccepts(call.recipe, call.recipe.meta.richExamples[1].url)
    /\ Len(ret[1].value.errors) = 1
    /\ Len(ErrorsAt("meta.richExamples")) = 1
    /\ ~ret[1].value.valid


(***************************************************************************)
(* JavaScript operators and string functions used by the extract routines. *)
(***************************************************************************)

\* ToBoolean(v): what `if (v)`, `!v` and `v || w` test.
Truthy(v) ==
    CASE v.t \in {"undefined", "null", "NaN"} -> FALSE
      [] v.t = "number" -> v.n # 0
      [] v.t = "string" -> v.s # ""
      [] v.t = "boolean" -> v.b
      [] OTHER -> TRUE

\* a || b
OrElse(a, b) == IF Truthy(a) THEN a ELSE b

\* The value of key k in a sequence of <<key, value>> entries, undefined when
\* there is no such key.
Lookup(es, k) ==
    LET I == {i \in 1..Len(es) : es[i][1] = k}
    IN  IF I = {} THEN Undefined ELSE es[CHOOSE i \in I : TRUE][2]

HasKey(es, k) == \E i \in 1..Len(es) : es[i][1] = k

\* es[k] = v: the key keeps its place when it exists and is appended otherwise.
Put(es, k, v) ==
    IF HasKey(es, k)
    THEN [i \in 1..Len(es) |-> IF es[i][1] = k THEN <<k, v>> ELSE es[i]]
    ELSE Append(es, <<k, v>>)

\* v.k and v?.k on a value that is not null or undefined.
Prop(v, k) == IF v.t = "object" THEN Lookup(v.entries, k) ELSE Undefined

\* v?.[0]: the first element of an array, the first character of a string.
Index0(v) ==
    CASE v.t = "array" -> IF Len(v.items) > 0 THEN v.items[1] ELSE Undefined
      [] v.t = "string" -> IF Len(v.s) > 0 THEN Str(CharAt(v.s, 1)) ELSE Undefined
      [] v.t = "object" -> Lookup(v.entries, "0")
      [] OTHER -> Undefined

Digits == {"0", "1", "2", "3", "4", "5", "6", "7", "8", "9"}

DigitVal(c) ==
    CASE c = "0" -> 0 [] c = "1" -> 1 [] c = "2" -> 2 [] c = "3" -> 3 [] c = "4" -> 4
      [] c = "5" -> 5 [] c = "6" -> 6 [] c = "7" -> 7 [] c = "8" -> 8 [] c = "9" -> 9

LowerLetters == {"a", "b", "c", "d", "e", "f", "g", "h", "i", "j", "k", "l", "m",
                 "n", "o", "p", "q", "r", "s", "t", "u", "v", "w", "x", "y", "z"}

UpperLetters == {"A", "B", "C", "D", "E", "F", "G", "H", "I", "J", "K", "L", "M",
                 "N", "O", "P", "Q", "R", "S", "T", "U", "V", "W", "X", "Y", "Z"}

\* The suffix of s from position i on.
From(s, i) == IF i > Len(s) THEN "" ELSE SubSeq(s, i, Len(s))

\* The number of consecutive characters of set C in s from position i on.
RECURSIVE Run(_, _, _)
Run(s, i, C) == IF CharAt(s, i) \in C THEN 1 + Run(s, i + 1, C) ELSE 0

\* The integer written by the n digits of s from position i on.
RECURSIVE IntOf(_, _, _)
IntOf(s, i, n) ==
    IF n = 0 THEN 0 ELSE IntOf(s, i, n - 1) * 10 + DigitVal(CharAt(s, i + n - 1))

\* String.prototype.trim
RECURSIVE TrimStart(_)
TrimStart(s) == IF CharAt(s, 1) \in Whitespace THEN TrimStart(From(s, 2)) ELSE s

RECURSIVE TrimEnd(_)
TrimEnd(s) ==
    IF CharAt(s, Len(s)) \in Whitespace THEN TrimEnd(SubSeq(s, 1, Len(s) - 1)) ELSE s

Trim(s) == TrimEnd(TrimStart(s))

\* s.includes(sub)
Includes(s, sub) ==
    \/ sub = ""
    \/ \E i \in 1..(Len(s) - Len(sub) + 1) : SubSeq(s, i, i + Len(sub) - 1) = sub

\* s.startsWith(prefix)
StartsWith(s, prefix) == Len(prefix) <= Len(s) /\ SubSeq(s, 1, Len(prefix)) = prefix

\* s.replace(c, r) for a one-character string pattern c: the first occurrence only.
RECURSIVE ReplaceFirst(_, _, _)
ReplaceFirst(s, c, r) ==
    IF s = "" THEN ""
    ELSE IF CharAt(s, 1) = c THEN r \o From(s, 2)
    ELSE CharAt(s, 1) \o ReplaceFirst(From(s, 2), c, r)

\* s.replace(/[^C]/g, ''): the characters of s that are in set C.
RECURSIVE KeepChars(_, _)
KeepChars(s, C) ==
    IF s = "" THEN ""
    ELSE (IF CharAt(s, 1) \in C THEN CharAt(s, 1) ELSE "") \o KeepChars(From(s, 2), C)

\* parseFloat on a string: leading white space, a sign, digits, a fraction; NaN
\* when there is no digit.  The value is held in hundredths; digits after the
\* second decimal are dropped.
\* The position of the first digit of t: after a sign, if there is one.
FirstDigit(t) == IF CharAt(t, 1) \in {"+", "-"} THEN 2 ELSE 1

Sign(t) == IF CharAt(t, 1) = "-" THEN -1 ELSE 1

\* The number of digits of the fraction that starts at position i with a ".".
FractionRun(t, i) == IF CharAt(t, i) = "." THEN Run(t, i + 1, Digits) ELSE 0

\* The value of nInt digits from position p on, and nFrac digits after a ".".
FloatValue(t, p, nInt, nFrac) ==
    IF nInt = 0 /\ nFrac = 0 THEN NaN
    ELSE Num(Sign(t) * (IntOf(t, p, nInt) * 100
                           + (IF nFrac >= 1 THEN 10 * DigitVal(CharAt(t, p + nInt + 1)) ELSE 0)
                           + (IF nFrac >= 2 THEN DigitVal(CharAt(t, p + nInt + 2)) ELSE 0)))

FloatFrom(t, p) == FloatValue(t, p, Run(t, p, Digits), FractionRun(t, p + Run(t, p, Digits)))

ParseFloatStr(s) == FloatFrom(TrimStart(s), FirstDigit(TrimStart(s)))

\* parseFloat(v): the argument is converted to a string first.
parseFloat(v) ==
    CASE v.t = "string" -> ParseFloatStr(v.s)
      [] v.t = "number" -> v
      [] OTHER -> NaN

\* parseInt(v, 10)
IntFrom(t, p) ==
    IF Run(t, p, Digits) = 0 THEN NaN
    ELSE Num(Sign(t) * 100 * IntOf(t, p, Run(t, p, Digits)))

parseInt(v) ==
    IF v.t = "string" THEN IntFrom(TrimStart(v.s), FirstDigit(TrimStart(v.s)))
    ELSE IF v.t = "number" THEN Num((v.n \div 100) * 100)
    ELSE NaN

\* parsePrice (helpers.ts)
\* isNaN(price) ? undefined : price
UndefinedIfNaN(price) == IF price = NaN THEN Undefined ELSE price

parsePrice(priceStr) ==
    IF ~Truthy(priceStr) THEN Undefined
    ELSE UndefinedIfNaN(ParseFloatStr(ReplaceFirst(KeepChars(priceStr.s, Digits \cup {".", ","}),
                                                   ",", ".")))

\* String.fromCharCode for the character codes of the modelled payloads.
FromCharCode(code) ==
    CASE code = 34 -> "\"" [] code = 38 -> "&" [] code = 39 -> "'" [] code = 60 -> "<"
      [] code = 62 -> ">" [] code = 65 -> "A" [] code = 169 -> "(c)"

\* The replacement of one matched entity.
DecodeEntity(m) ==
    CASE m = "&amp;" -> "&"
      [] m = "&lt;" -> "<"
      [] m = "&gt;" -> ">"
      [] m = "&quot;" -> "\""
      [] m = "&#39;" -> "'"
      [] m = "&nbsp;" -> " "
      [] OTHER -> IF StartsWith(m, "&#") THEN FromCharCode(IntOf(m, 3, Len(m) - 3)) ELSE m

\* The length of the match of /&[a-z]+;|&#\d+;/i at position i of s, 0 for none.
EntityLength(s, i) ==
    LET letters == Run(s, i + 1, LowerLetters \cup UpperLetters)
        digits == Run(s, i + 2, Digits)
    IN  IF CharAt(s, i) # "&" THEN 0
        ELSE IF letters > 0 /\ CharAt(s, i + 1 + letters) = ";" THEN letters + 2
        ELSE IF CharAt(s, i + 1) = "#" /\ digits > 0 /\ CharAt(s, i + 2 + digits) = ";"
        THEN digits + 3
        ELSE 0

RECURSIVE DecodeFrom(_, _)
DecodeFrom(s, i) ==
    IF i > Len(s) THEN ""
    ELSE LET n == EntityLength(s, i)
         IN  IF n = 0 THEN CharAt(s, i) \o DecodeFrom(s, i + 1)
             ELSE DecodeEntity(SubSeq(s, i, i + n - 1)) \o DecodeFrom(s, i + n)

\* decodeHtmlEntities applied to its own output.
decodeHtmlEntities_Twice(text) == DecodeFrom(DecodeFrom(text, 1), 1)

\* decodeHtmlEntities (helpers.ts)
decodeHtmlEntities(text) == DecodeFrom(text, 1)


\* s.toLowerCase() on the letters A-Z.
UpperSeq == <<"A", "B", "C", "D", "E", "F", "G", "H", "I", "J", "K", "L", "M",
              "N", "O", "P", "Q", "R", "S", "T", "U", "V", "W", "X", "Y", "Z">>

LowerSeq == <<"a", "b", "c", "d", "e", "f", "g", "h", "i", "j", "k", "l", "m",
              "n", "o", "p", "q", "r", "s", "t", "u", "v", "w", "x", "y", "z">>

LowerOf(c) ==
    IF c \in UpperLetters THEN LowerSeq[CHOOSE i \in 1..26 : UpperSeq[i] = c] ELSE c

RECURSIVE ToLowerCase(_)
ToLowerCase(s) == IF s = "" THEN "" ELSE LowerOf(CharAt(s, 1)) \o ToLowerCase(From(s, 2))

\* The literal lit stands at position i of s; MatchAtCI ignores case (flag i).
MatchAt(s, i, lit) == i + Len(lit) - 1 <= Len(s) /\ SubSeq(s, i, i + Len(lit) - 1) = lit

MatchAtCI(s, i, lit) ==
    i + Len(lit) - 1 <= Len(s) /\ ToLowerCase(SubSeq(s, i, i + Len(lit) - 1)) = ToLowerCase(lit)

\* s.replace(/,/g, ''): s without the characters of set C.
RECURSIVE DropChars(_, _)
DropChars(s, C) ==
    IF s = "" THEN ""
    ELSE (IF CharAt(s, 1) \in C THEN "" ELSE CharAt(s, 1)) \o DropChars(From(s, 2), C)

\* The least element of a non-empty set of positions.
Least(I) == CHOOSE i \in I : \A k \in I : i <= k

(***************************************************************************)
(* The payload.  The extract routines read the HTML text only through      *)
(* regular expressions, so a payload is held as what they find in it:      *)
(*   scripts  the application/ld+json script blocks in document order,     *)
(*            each the JSON value it parses to, or Invalid;                *)
(*   meta     what extractMetaTags returns, as <<name, content>> entries;  *)
(*   spans    for each pattern that matches, identified by the element it  *)
(*            looks for, the text of its first capture group;              *)
(*   json     the embedded JSON objects (ytInitialPlayerResponse,          *)
(*            ytInitialData, tweet_results) that parse.                    *)
(***************************************************************************)

Invalid == [t |-> "invalid JSON"]

\* extractJsonLd: the blocks that parse, arrays spread into their items.
RECURSIVE extractJsonLd_From(_, _)
extractJsonLd_From(scripts, i) ==
    IF i > Len(scripts) THEN <<>>
    ELSE (CASE scripts[i] = Invalid -> <<>>
            [] scripts[i].t = "array" -> scripts[i].items
            [] OTHER -> <<scripts[i]>>)
         \o extractJsonLd_From(scripts, i + 1)

extractJsonLd(html) == extractJsonLd_From(html.scripts, 1)

\* extractMetaTags (helpers.ts): the trimmed text of the title element under
\* the key "title", then the meta tags.
RECURSIVE PutAll(_, _, _)
PutAll(es, more, i) ==
    IF i > Len(more) THEN es ELSE PutAll(Put(es, more[i][1], more[i][2]), more, i + 1)

extractMetaTags(html) ==
    PutAll(IF HasKey(html.spans, "title") THEN << <<"title", Str(Trim(Lookup(html.spans, "title").s))>> >>
           ELSE <<>>,
           html.meta, 1)

\* extractMetaTags(html)[name]
MetaTag(html, name) == Lookup(extractMetaTags(html), name)

\* html.match(pattern)?.[1] and pattern.test(html)
Capture(html, pattern) == Lookup(html.spans, pattern)

Test(html, pattern) == HasKey(html.spans, pattern)

\* extractFirst (helpers.ts)
extractFirst(html, pattern) ==
    IF Test(html, pattern) THEN Str(Trim(Capture(html, pattern).s)) ELSE Undefined

\* The first pattern of the list, from the i-th on, for which extractFirst
\* gives a non-empty string; 0 when there is none.
RECURSIVE FirstFound(_, _, _)
FirstFound(html, patterns, i) ==
    IF i > Len(patterns) THEN 0
    ELSE IF Truthy(extractFirst(html, patterns[i])) THEN i
    ELSE FirstFound(html, patterns, i + 1)

\* The first pattern of the list that matches at all; 0 when there is none.
FirstMatch(html, patterns) ==
    IF \E i \in 1..Len(patterns) : Test(html, patterns[i])
    THEN Least({i \in 1..Len(patterns) : Test(html, patterns[i])})
    ELSE 0

\* if (cond) data[k] = v
PutIf(d, cond, k, v) == IF cond THEN Put(d, k, v) ELSE d

\* Array.isArray(v) ? v[0] : v
FirstIfArray(v) == IF v.t = "array" THEN Index0(v) ELSE v

\* A property read on v throws a TypeError.
Nullish(v) == v \in {Undefined, Null}

TypeError == Error("Cannot read properties of undefined")


(***************************************************************************)
(* amazonRecipe.extract (recipes/amazon.ts).  The routine is a sequence of *)
(* stages; AmazonStage(stage, html, url, d) is the map after the stage has *)
(* run on map d.                                                           *)
(***************************************************************************)

Alnum == Digits \cup LowerLetters \cup UpperLetters

\* url.match(/\/(?:dp|gp\/product|gp\/aw\/d)\/([A-Z0-9]{10})/i)?.[1]
AsinOf(url) ==
    LET prefixes == {"/dp/", "/gp/product/", "/gp/aw/d/"}
        ends == {i + Len(p) : i \in 1..Len(url), p \in prefixes}
        I == {j \in ends : /\ \E p \in prefixes : j > Len(p) /\ MatchAtCI(url, j - Len(p), p)
                           /\ Run(url, j, Alnum) >= 10}
    IN  IF I = {} THEN Undefined ELSE Str(SubSeq(url, Least(I), Least(I) + 9))

amazonPricePatterns ==
    <<"span.a-offscreen", "span#priceblock_ourprice", "span#priceblock_dealprice",
      "span#priceblock_saleprice", ".a-price span">>

amazonStockPatterns == <<"span.a-color-success", "#availability span", "span.availabilityMessage">>

amazonOutOfStockPatterns ==
    <<"currently unavailable", "out of stock", "not available", "we don't know when or if">>

amazonReviewPatterns == <<"span#acrCustomerReviewText", "N ratings">>

amazonBrandPatterns == <<"a#bylineInfo", "#bylineInfo", "tr.po-brand span.po-break-word">>

amazonImagePatterns == <<"img#landingImage", "img#imgBlkFront", "img.a-dynamic-image">>

\* One pass of the JSON-LD loop, lines 172-192, on item ld.
AmazonJsonLdItem(d, ld) ==
    IF Prop(ld, "@type") # Str("Product") THEN d
    ELSE LET d1 == Put(d, "title", OrElse(Lookup(d, "title"), Prop(ld, "name")))
             d2 == Put(d1, "description", OrElse(Lookup(d1, "description"), Prop(ld, "description")))
             d3 == Put(d2, "brand", OrElse(Prop(Prop(ld, "brand"), "name"), Prop(ld, "brand")))
             d4 == Put(d3, "imageUrl", OrElse(Index0(Prop(ld, "image")), Prop(ld, "image")))
             offer == FirstIfArray(Prop(ld, "offers"))
             d5 == IF ~Truthy(Prop(ld, "offers")) THEN d4
                   ELSE LET p == PutIf(d4, Truthy(Prop(offer, "price")),
                                       "price", parseFloat(Prop(offer, "price")))
                        IN  PutIf(p, Truthy(Prop(offer, "availability")), "inStock",
                                  Bool(Includes(Prop(offer, "availability").s, "InStock")))
             rating == Prop(ld, "aggregateRating")
         IN  IF ~Truthy(rating) THEN d5
             ELSE Put(Put(d5, "rating", parseFloat(Prop(rating, "ratingValue"))),
                      "reviewCount", parseInt(Prop(rating, "reviewCount")))

\* A pass of the loop throws: ld is null, or the first offer is.
AmazonJsonLdItemThrows(ld) ==
    \/ Nullish(ld)
    \/ /\ Prop(ld, "@type") = Str("Product")
       /\ Truthy(Prop(ld, "offers"))
       /\ Nullish(FirstIfArray(Prop(ld, "offers")))

RECURSIVE AmazonJsonLd(_, _, _)
AmazonJsonLd(d, lds, i) ==
    IF i > Len(lds) THEN d ELSE AmazonJsonLd(AmazonJsonLdItem(d, lds[i]), lds, i + 1)

\* The price the pattern loop of lines 229-240 assigns: that of the first
\* pattern whose text parses to a positive price; undefined for none.
RECURSIVE AmazonPatternPrice(_, _)
AmazonPatternPrice(html, i) ==
    IF i > Len(amazonPricePatterns) THEN Undefined
    ELSE LET priceStr == extractFirst(html, amazonPricePatterns[i])
             price == parsePrice(priceStr)
         IN  IF Truthy(priceStr) /\ price # Undefined /\ price.n > 0 THEN price
             ELSE AmazonPatternPrice(html, i + 1)

\* brand.trim().replace(/^(Visit the |Brand: )/i, '').replace(/ Store$/, '')
AmazonBrandText(brand) ==
    LET t == Trim(brand)
        a == IF MatchAtCI(t, 1, "Visit the ") THEN From(t, 11)
             ELSE IF MatchAtCI(t, 1, "Brand: ") THEN From(t, 8)
             ELSE t
    IN  IF Len(a) >= 6 /\ MatchAt(a, Len(a) - 5, " Store") THEN SubSeq(a, 1, Len(a) - 6) ELSE a

amazonStages ==
    <<"url", "json-ld", "title", "meta", "price-parts", "price-patterns", "original-price",
      "discount", "stock", "out-of-stock", "stock-default", "rating", "reviews", "brand",
      "seller", "prime", "deal", "coupon", "rank", "delivery", "image">>

AmazonStage(stage, html, url, d) ==
    CASE stage = "url" ->
            PutIf(d, AsinOf(url) # Undefined, "asin", AsinOf(url))
      [] stage = "json-ld" ->
            AmazonJsonLd(d, extractJsonLd(html), 1)
      [] stage = "title" ->
            LET title == extractFirst(html, "span#productTitle")
            IN  PutIf(d, ~Truthy(Lookup(d, "title")) /\ Truthy(title),
                      "title", Str(decodeHtmlEntities(Trim(title.s))))
      [] stage = "meta" ->
            PutIf(d, ~Truthy(Lookup(d, "title")),
                  "title", OrElse(MetaTag(html, "og:title"), MetaTag(html, "twitter:title")))
      [] stage = "price-parts" ->
            LET whole == DropChars(Capture(html, "span.a-price-whole").s, {","})
                fraction == IF Test(html, "span.a-price-fraction")
                            THEN Capture(html, "span.a-price-fraction").s ELSE "00"
            IN  PutIf(d, ~Truthy(Lookup(d, "price")) /\ Test(html, "span.a-price-whole"),
                      "price", ParseFloatStr(whole \o "." \o fraction))
      [] stage = "price-patterns" ->
            PutIf(d, ~Truthy(Lookup(d, "price")) /\ AmazonPatternPrice(html, 1) # Undefined,
                  "price", AmazonPatternPrice(html, 1))
      [] stage = "original-price" ->
            PutIf(d, Test(html, "span.a-text-price"),
                  "originalPrice", parsePrice(Capture(html, "span.a-text-price")))
      [] stage = "discount" ->
            PutIf(d, Test(html, "span.savingsPercentage"),
                  "discount", Capture(html, "span.savingsPercentage"))
      [] stage = "stock" ->
            LET i == FirstFound(html, amazonStockPatterns, 1)
                stockLower == ToLowerCase(extractFirst(html, amazonStockPatterns[i]).s)
            IN  PutIf(d, Lookup(d, "inStock") = Undefined /\ i # 0,
                      "inStock", Bool(\/ Includes(stockLower, "in stock")
                                      \/ Includes(stockLower, "available")
                                      \/ Includes(stockLower, "only")
                                      \/ Includes(stockLower, "left in stock")))
      [] stage = "out-of-stock" ->
            PutIf(d, Lookup(d, "inStock") = Undefined /\ FirstMatch(html, amazonOutOfStockPatterns) # 0,
                  "inStock", Bool(FALSE))
      [] stage = "stock-default" ->
            PutIf(d, Lookup(d, "inStock") = Undefined /\ Lookup(d, "price") # Undefined,
                  "inStock", Bool(TRUE))
      [] stage = "rating" ->
            PutIf(d, ~Truthy(Lookup(d, "rating")) /\ Test(html, "span.a-icon-alt"),
                  "rating", parseFloat(Capture(html, "span.a-icon-alt")))
      [] stage = "reviews" ->
            LET i == FirstMatch(html, amazonReviewPatterns)
            IN  PutIf(d, ~Truthy(Lookup(d, "reviewCount")) /\ i # 0, "reviewCount",
                      parseInt(Str(DropChars(Capture(html, amazonReviewPatterns[i]).s, {","}))))
      [] stage = "brand" ->
            LET i == FirstFound(html, amazonBrandPatterns, 1)
            IN  PutIf(d, ~Truthy(Lookup(d, "brand")) /\ i # 0, "brand",
                      Str(decodeHtmlEntities(
                              AmazonBrandText(extractFirst(html, amazonBrandPatterns[i]).s))))
      [] stage = "seller" ->
            IF Test(html, "a#sellerProfileTriggerId")
            THEN Put(d, "seller",
                     Str(decodeHtmlEntities(Trim(Capture(html, "a#sellerProfileTriggerId").s))))
            ELSE PutIf(d, Test(html, "Ships from and sold by"), "seller",
                       Str(decodeHtmlEntities(Trim(Capture(html, "Ships from and sold by").s))))
      [] stage = "prime" -> Put(d, "isPrime", Bool(Test(html, "prime")))
      [] stage = "deal" -> Put(d, "isDeal", Bool(Test(html, "deal badge")))
      [] stage = "coupon" ->
            LET c == Capture(html, "Save N with coupon")
            IN  PutIf(d, Test(html, "Save N with coupon"), "coupon",
                      IF Includes(c.s, "%") THEN c ELSE Str("$" \o c.s))
      [] stage = "rank" ->
            IF Test(html, "#N in")
            THEN Put(Put(d, "bestSellerRank",
                         parseInt(Str(DropChars(Capture(html, "#N in").s, {","})))),
                     "category", Str(Trim(Capture(html, "#N in category").s)))
            ELSE d
      [] stage = "delivery" ->
            PutIf(d, Test(html, "delivery day"), "deliveryDate",
                  Str(decodeHtmlEntities(Trim(Capture(html, "delivery day").s))))
      [] stage = "image" ->
            LET i == FirstMatch(html, amazonImagePatterns)
            IN  PutIf(d, ~Truthy(Lookup(d, "imageUrl")) /\ i # 0,
                      "imageUrl", Capture(html, amazonImagePatterns[i]))

\* A stage of amazonRecipe.extract throws.
AmazonStageThrows(stage, html, url, d) ==
    /\ stage = "json-ld"
    /\ \E i \in 1..Len(extractJsonLd(html)) : AmazonJsonLdItemThrows(extractJsonLd(html)[i])


\* extractFirst for the first pattern of a list that gives a non-empty string;
\* undefined when none does.
FirstText(html, patterns) ==
    IF FirstFound(html, patterns, 1) = 0 THEN Undefined
    ELSE extractFirst(html, patterns[FirstFound(html, patterns, 1)])

(***************************************************************************)
(* ebayRecipe.extract.                                                     *)
(***************************************************************************)

\* url.match(/\/itm\/(\d+)/)?.[1]
ItemIdOf(url) ==
    LET I == {i \in 1..Len(url) : MatchAt(url, i, "/itm/") /\ Run(url, i + 5, Digits) >= 1}
    IN  IF I = {} THEN Undefined
        ELSE Str(SubSeq(url, Least(I) + 5, Least(I) + 4 + Run(url, Least(I) + 5, Digits)))

WordChars == Alnum \cup {"_"}

\* s.match(/(\w+)Condition/)?.[1]: the leftmost, then longest, run of word
\* characters that the text "Condition" follows.
ConditionWord(s) ==
    LET Ends(i) == {j \in (i + 1)..Len(s) : /\ Run(s, i, WordChars) >= j - i
                                            /\ MatchAt(s, j, "Condition")}
        I == {i \in 1..Len(s) : Ends(i) # {}}
        i0 == Least(I)
        j0 == CHOOSE j \in Ends(i0) : \A k \in Ends(i0) : k <= j
    IN  IF I = {} THEN Undefined ELSE Str(SubSeq(s, i0, j0 - 1))

\* conditionMap[word + 'Condition'] || word
EbayCondition(word) ==
    CASE word = "New" -> Str("New")
      [] word = "Used" -> Str("Used")
      [] word = "Refurbished" -> Str("Refurbished")
      [] OTHER -> Str(word)

ebayTitlePatterns == <<"h1.x-item-title span", "h1#itemTitle", "span.vi-title">>

ebayPricePatterns ==
    <<"span.x-price-primary span", "span.ux-textspans--BOLD", "span#prcIsum", "span[itemprop=price]">>

ebayOriginalPatterns == <<"Was:", "span.x-price-was", "span.ux-textspans--STRIKETHROUGH">>

ebayTimePatterns == <<"span.ux-timer", "span#vi-cdown_timeLeft">>

ebayConditionPatterns == <<"span.ux-icon-text span", "div.x-item-condition span", "Condition:">>

ebaySellerPatterns == <<"span.ux-seller-section__item--seller a", "a.mbg-id", "Seller:">>

ebayQuantityPatterns == <<"N available", "Quantity:", "More than N available">>

ebayShippingPatterns == <<"$N shipping", "span.ux-textspans--BOLD shipping">>

ebayLocationPatterns == <<"Located in:", "Item location:", "span.ux-textspans City, ST">>

\* One pass of the JSON-LD loop, lines 197-222, on item ld.
EbayJsonLdItem(d, ld) ==
    IF Prop(ld, "@type") # Str("Product") THEN d
    ELSE LET d1 == Put(d, "title", Prop(ld, "name"))
             d2 == Put(d1, "brand", OrElse(Prop(Prop(ld, "brand"), "name"), Prop(ld, "brand")))
             d3 == Put(d2, "description", Prop(ld, "description"))
             d4 == Put(d3, "imageUrl", FirstIfArray(Prop(ld, "image")))
             offers == FirstIfArray(Prop(ld, "offers"))
             d5 == Put(d4, "price", parseFloat(Prop(offers, "price")))
             d6 == Put(d5, "currency", Prop(offers, "priceCurrency"))
             d7 == PutIf(d6, Truthy(Prop(offers, "availability")), "inStock",
                         Bool(Includes(Prop(offers, "availability").s, "InStock")))
             word == ConditionWord(Prop(offers, "itemCondition").s)
         IN  IF ~Truthy(Prop(ld, "offers")) THEN d4
             ELSE PutIf(d7, Truthy(Prop(offers, "itemCondition")) /\ word # Undefined,
                        "condition", EbayCondition(word.s))

\* A pass of the loop throws: ld is null, or the first offer is.
EbayJsonLdItemThrows(ld) ==
    \/ Nullish(ld)
    \/ /\ Prop(ld, "@type") = Str("Product")
       /\ Truthy(Prop(ld, "offers"))
       /\ Nullish(FirstIfArray(Prop(ld, "offers")))

RECURSIVE EbayJsonLd(_, _, _)
EbayJsonLd(d, lds, i) ==
    IF i > Len(lds) THEN d ELSE EbayJsonLd(EbayJsonLdItem(d, lds[i]), lds, i + 1)

\* The pattern loop of lines 259-265, from pattern i on: each pattern that
\* gives a text assigns its price, and the loop stops at a truthy one.
RECURSIVE EbayPatternPrice(_, _, _)
EbayPatternPrice(d, html, i) ==
    IF i > Len(ebayPricePatterns) THEN d
    ELSE LET match == extractFirst(html, ebayPricePatterns[i])
         IN  IF ~Truthy(match) THEN EbayPatternPrice(d, html, i + 1)
             ELSE IF Truthy(parsePrice(match)) THEN Put(d, "price", parsePrice(match))
             ELSE EbayPatternPrice(Put(d, "price", parsePrice(match)), html, i + 1)

ebayStages ==
    <<"url", "json-ld", "meta", "title", "price-patterns", "original-price", "discount",
      "bids", "current-bid", "buy-it-now", "time-left", "end-time", "condition", "seller",
      "seller-rating", "feedback", "quantity", "sold", "watchers", "shipping",
      "free-shipping", "free-returns", "return-period", "location", "brand">>

EbayStage(stage, html, url, d) ==
    CASE stage = "url" ->
            PutIf(d, ItemIdOf(url) # Undefined, "itemId", ItemIdOf(url))
      [] stage = "json-ld" ->
            EbayJsonLd(d, extractJsonLd(html), 1)
      [] stage = "meta" ->
            LET d1 == PutIf(d, ~Truthy(Lookup(d, "title")), "title", MetaTag(html, "og:title"))
            IN  PutIf(d1, ~Truthy(Lookup(d1, "imageUrl")), "imageUrl", MetaTag(html, "og:image"))
      [] stage = "title" ->
            LET match == FirstText(html, ebayTitlePatterns)
            IN  PutIf(d, ~Truthy(Lookup(d, "title")) /\ Truthy(match),
                      "title", Str(decodeHtmlEntities(Trim(match.s))))
      [] stage = "price-patterns" ->
            IF ~Truthy(Lookup(d, "price")) THEN EbayPatternPrice(d, html, 1) ELSE d
      [] stage = "original-price" ->
            LET match == FirstText(html, ebayOriginalPatterns)
            IN  PutIf(d, Truthy(match), "originalPrice", parsePrice(match))
      [] stage = "discount" ->
            PutIf(d, Truthy(extractFirst(html, "N% off")), "discount", extractFirst(html, "N% off"))
      [] stage = "bids" ->
            IF Truthy(extractFirst(html, "N bids"))
            THEN Put(Put(d, "bidCount", parseInt(extractFirst(html, "N bids"))),
                     "isAuction", Bool(TRUE))
            ELSE d
      [] stage = "current-bid" ->
            IF Truthy(extractFirst(html, "Current bid:"))
            THEN Put(Put(d, "currentBid", parsePrice(extractFirst(html, "Current bid:"))),
                     "isAuction", Bool(TRUE))
            ELSE d
      [] stage = "buy-it-now" ->
            PutIf(d, Test(html, "Buy It Now"), "isBuyItNow", Bool(TRUE))
      [] stage = "time-left" ->
            LET match == FirstText(html, ebayTimePatterns)
            IN  PutIf(d, Truthy(match), "timeLeft", Str(decodeHtmlEntities(Trim(match.s))))
      [] stage = "end-time" ->
            PutIf(d, Test(html, "data-end-time"), "endTime", Capture(html, "data-end-time"))
      [] stage = "condition" ->
            LET match == FirstText(html, ebayConditionPatterns)
            IN  PutIf(d, ~Truthy(Lookup(d, "condition")) /\ Truthy(match),
                      "condition", Str(Trim(match.s)))
      [] stage = "seller" ->
            LET match == FirstText(html, ebaySellerPatterns)
            IN  PutIf(d, Truthy(match), "seller", Str(Trim(match.s)))
      [] stage = "seller-rating" ->
            PutIf(d, Truthy(extractFirst(html, "N% positive")),
                  "sellerRating", parseFloat(extractFirst(html, "N% positive")))
      [] stage = "feedback" ->
            LET match == extractFirst(html, "(N) feedback")
            IN  PutIf(d, Truthy(match),
                      "sellerFeedbackCount", parseInt(Str(DropChars(match.s, {","}))))
      [] stage = "quantity" ->
            LET match == FirstText(html, ebayQuantityPatterns)
            IN  PutIf(d, Truthy(match), "quantity", parseInt(match))
      [] stage = "sold" ->
            PutIf(d, Truthy(extractFirst(html, "N sold")), "sold", parseInt(extractFirst(html, "N sold")))
      [] stage = "watchers" ->
            PutIf(d, Truthy(extractFirst(html, "N watchers")),
                  "watchers", parseInt(extractFirst(html, "N watchers")))
      [] stage = "shipping" ->
            LET match == FirstText(html, ebayShippingPatterns)
            IN  PutIf(d, Truthy(match), "shippingPrice", parseFloat(match))
      [] stage = "free-shipping" ->
            PutIf(d, Lookup(d, "shippingPrice") = Undefined /\ Test(html, "free shipping"),
                  "shippingPrice", Num(0))
      [] stage = "free-returns" -> Put(d, "freeReturns", Bool(Test(html, "free returns")))
      [] stage = "return-period" ->
            LET match == extractFirst(html, "N days returns")
            IN  PutIf(d, Truthy(match), "returnPeriod", Str(match.s \o " days"))
      [] stage = "location" ->
            LET match == FirstText(html, ebayLocationPatterns)
            IN  PutIf(d, Truthy(match), "location", Str(decodeHtmlEntities(Trim(match.s))))
      [] stage = "brand" ->
            LET match == extractFirst(html, "Brand:")
            IN  PutIf(d, ~Truthy(Lookup(d, "brand")) /\ Truthy(match), "brand", Str(Trim(match.s)))

\* A stage of ebayRecipe.extract throws.
EbayStageThrows(stage, html, url, d) ==
    /\ stage = "json-ld"
    /\ \E i \in 1..Len(extractJsonLd(html)) : EbayJsonLdItemThrows(extractJsonLd(html)[i])


\* A number too large to be held in hundredths: k thousands.
Thousands(k) == [t |-> "number", n |-> k, unit |-> "thousands"]

\* The magnitude of n.
Abs(n) == IF n < 0 THEN -n ELSE n

\* parseAbbreviatedNumber (helpers.ts).  Math.round changes nothing here: a
\* number of hundredths times 1000 is whole.
\* Math.round(f * factor); a product beyond the range of the hundredths is held
\* in thousands (the factor is then 10^6 or 10^9).
Times(f, factor) ==
    IF f = NaN THEN NaN
    ELSE IF Abs(f.n) <= 2147483647 \div factor THEN Num(f.n * factor)
    ELSE Thousands(f.n * (factor \div 100000))

\* Math.round(parseFloat(cleaned.replace(suffix, '')) * factor)
Scaled(cleaned, suffix, factor) == Times(ParseFloatStr(ReplaceFirst(cleaned, suffix, "")), factor)

\* The body of parseAbbreviatedNumber on the trimmed, lower-case text.
AbbreviatedNumber(cleaned) ==
    CASE CharAt(cleaned, Len(cleaned)) = "k" -> Scaled(cleaned, "k", 1000)
      [] CharAt(cleaned, Len(cleaned)) = "m" -> Scaled(cleaned, "m", 1000000)
      [] CharAt(cleaned, Len(cleaned)) = "b" -> Scaled(cleaned, "b", 1000000000)
      [] OTHER -> OrElse(parseInt(Str(DropChars(cleaned, {",", "."} \cup Whitespace))), Num(0))

\* parseAbbreviatedNumber without toLowerCase.
parseAbbreviatedNumber_CaseSensitive(str) == AbbreviatedNumber(Trim(str))

parseAbbreviatedNumber(str) == AbbreviatedNumber(Trim(ToLowerCase(str)))

\* v?.k1?.k2 ... along a path of keys; the key "0" is the index [0].
RECURSIVE Path(_, _)
Path(v, keys) ==
    IF keys = <<>> THEN v
    ELSE Path(IF Head(keys) = "0" THEN Index0(v) ELSE Prop(v, Head(keys)), Tail(keys))

\* arr?.find(c => c?.k1?.k2 ...): the first item with a truthy value at the end
\* of the path, or undefined.
FindPath(arr, keys) ==
    LET I == IF arr.t = "array"
             THEN {i \in 1..Len(arr.items) : Truthy(Path(arr.items[i], keys))} ELSE {}
    IN  IF I = {} THEN Undefined ELSE arr.items[Least(I)]

Find(arr, key) == FindPath(arr, <<key>>)

\* Number.prototype.toString and padStart(2, '0') on a whole number of hundredths.
PadTwo(n) == IF n < 10 THEN "0" \o ToString(n) ELSE ToString(n)

(***************************************************************************)
(* youtubeRecipe.extract (recipes/youtube.ts).                             *)
(***************************************************************************)

\* formatDuration
formatDuration(seconds) ==
    IF seconds = NaN THEN "NaN:NaN"
    ELSE LET secs == seconds.n \div 100
             hours == secs \div 3600
             minutes == (secs % 3600) \div 60
         IN  IF hours > 0
             THEN ToString(hours) \o ":" \o PadTwo(minutes) \o ":" \o PadTwo(secs % 60)
             ELSE ToString(minutes) \o ":" \o PadTwo(secs % 60)

IdChars == Alnum \cup {"_", "-"}

\* url.match(/(?:watch\?v=|youtu\.be\/|shorts\/)([a-zA-Z0-9_-]{11})/)?.[1]
VideoIdOf(url) ==
    LET prefixes == {"watch?v=", "youtu.be/", "shorts/"}
        I == {j \in 1..Len(url) : /\ \E p \in prefixes : j > Len(p) /\ MatchAt(url, j - Len(p), p)
                                  /\ Run(url, j, IdChars) >= 11}
    IN  IF I = {} THEN Undefined ELSE Str(SubSeq(url, Least(I), Least(I) + 10))

\* The statistics loop of lines 198-205, from item i on.
RECURSIVE YoutubeStats(_, _, _)
YoutubeStats(d, stats, i) ==
    IF i > Len(stats) THEN d
    ELSE LET type == Prop(stats[i], "interactionType")
             Has_(word) == IF type.t = "string" THEN Includes(type.s, word)
                           ELSE IF type.t = "array" THEN \E k \in 1..Len(type.items) : type.items[k] = Str(word)
                           ELSE FALSE
             count == parseInt(Prop(stats[i], "userInteractionCount"))
         IN  YoutubeStats(PutIf(PutIf(d, Has_("Watch"), "views", count), Has_("Like"), "likes", count),
                          stats, i + 1)

\* Array.isArray(x) ? x : [x]
AsList(x) == IF x.t = "array" THEN x.items ELSE <<x>>

\* One pass of the JSON-LD loop, lines 189-207, on item ld.
YoutubeJsonLdItem(d, ld) ==
    IF Prop(ld, "@type") # Str("VideoObject") THEN d
    ELSE LET d1 == Put(d, "title", Prop(ld, "name"))
             d2 == Put(d1, "description", Prop(ld, "description"))
             d3 == Put(d2, "duration", Prop(ld, "duration"))
             d4 == Put(d3, "publishedAt", Prop(ld, "uploadDate"))
             d5 == Put(d4, "thumbnailUrl",
                       OrElse(OrElse(Lookup(d4, "thumbnailUrl"), Index0(Prop(ld, "thumbnailUrl"))),
                              Prop(ld, "thumbnailUrl")))
         IN  IF Truthy(Prop(ld, "interactionStatistic"))
             THEN YoutubeStats(d5, AsList(Prop(ld, "interactionStatistic")), 1)
             ELSE d5

\* A pass of the loop throws: ld is null, a statistic is null, or its
\* interactionType has no includes method.
YoutubeJsonLdItemThrows(ld) ==
    \/ Nullish(ld)
    \/ /\ Prop(ld, "@type") = Str("VideoObject")
       /\ Truthy(Prop(ld, "interactionStatistic"))
       /\ LET stats == AsList(Prop(ld, "interactionStatistic"))
          IN  \E i \in 1..Len(stats) :
                 \/ Nullish(stats[i])
                 \/ Prop(stats[i], "interactionType").t \notin {"undefined", "null", "string", "array"}

RECURSIVE YoutubeJsonLd(_, _, _)
YoutubeJsonLd(d, lds, i) ==
    IF i > Len(lds) THEN d ELSE YoutubeJsonLd(YoutubeJsonLdItem(d, lds[i]), lds, i + 1)

\* keywords.slice(0, 10).join(', ') of an array of strings.
RECURSIVE JoinKeywords(_, _)
JoinKeywords(items, i) ==
    IF i > Len(items) \/ i > 10 THEN ""
    ELSE items[i].s \o (IF i < Len(items) /\ i < 10 THEN ", " ELSE "") \o JoinKeywords(items, i + 1)

\* data.k = data.k || v
PutOr(d, k, v) == Put(d, k, OrElse(Lookup(d, k), v))

\* Line 220 with the operands of || exchanged: the payload's id wins.
YoutubeVideoId_PayloadWins(d, vd) ==
    Put(d, "videoId", OrElse(Prop(vd, "videoId"), Lookup(d, "videoId")))

\* Line 220: data.videoId = data.videoId || videoDetails.videoId
YoutubeVideoId(d, vd) == PutOr(d, "videoId", Prop(vd, "videoId"))

\* Lines 224-228: the length of the video.
YoutubeLength(d, lengthSeconds) ==
    IF Truthy(lengthSeconds)
    THEN Put(Put(d, "durationSeconds", parseInt(lengthSeconds)),
             "duration", Str(formatDuration(parseInt(lengthSeconds))))
    ELSE d

\* Lines 233-237: the keywords.
YoutubeTags(d, kw) ==
    PutIf(d, Truthy(kw), "tags", IF kw.t = "array" THEN Str(JoinKeywords(kw.items, 1)) ELSE kw)

\* Lines 216-238 on playerData.videoDetails.
YoutubeVideoDetails(d, vd) ==
    IF ~Truthy(vd) THEN d
    ELSE LET d1 == PutOr(d, "title", Prop(vd, "title"))
             d2 == Put(d1, "channelName", Prop(vd, "author"))
             d3 == Put(d2, "channelId", Prop(vd, "channelId"))
             d4 == YoutubeVideoId(d3, vd)
             d5 == Put(d4, "views", parseInt(Prop(vd, "viewCount")))
             d6 == PutOr(d5, "description", Prop(vd, "shortDescription"))
             d7 == YoutubeLength(d6, Prop(vd, "lengthSeconds"))
             d8 == Put(d7, "isLive", Bool(Prop(vd, "isLiveContent") = Bool(TRUE)))
             d9 == Put(d8, "isUnlisted", Bool(Prop(vd, "isUnlisted") = Bool(TRUE)))
         IN  YoutubeTags(d9, Prop(vd, "keywords"))

\* Lines 241-246 on playerData.microformat?.playerMicroformatRenderer.
YoutubeMicroformat(d, mf) ==
    IF ~Truthy(mf) THEN d
    ELSE LET m1 == Put(d, "category", Prop(mf, "category"))
             m2 == PutOr(m1, "publishedAt", Prop(mf, "publishDate"))
         IN  PutOr(m2, "thumbnailUrl", Path(mf, <<"thumbnail", "thumbnails", "0", "url">>))

\* The body of the try block of lines 214-246 on the parsed player response.
YoutubePlayer(d, playerData) ==
    YoutubeMicroformat(YoutubeVideoDetails(d, Prop(playerData, "videoDetails")),
                       Path(playerData, <<"microformat", "playerMicroformatRenderer">>))

\* ytData.contents?.twoColumnWatchNextResults?.results?.results?.contents
WatchContents(ytData) ==
    Path(ytData, <<"contents", "twoColumnWatchNextResults", "results", "results", "contents">>)

\* viewText.replace(/[^0-9.KMB]/gi, '')
CountText(s) == KeepChars(s, Digits \cup {".", "K", "M", "B", "k", "m", "b"})

\* label.match(/([\d,.]+[KMB]?)/i)?.[1]
CountToken(s) ==
    LET N == Digits \cup {",", "."}
        I == {i \in 1..Len(s) : CharAt(s, i) \in N}
        i0 == Least(I)
        n == Run(s, i0, N)
        suffix == IF CharAt(s, i0 + n) \in {"K", "M", "B", "k", "m", "b"} THEN 1 ELSE 0
    IN  IF I = {} THEN Undefined ELSE Str(SubSeq(s, i0, i0 + n + suffix - 1))

\* Lines 266-269: the view count of the primary info.
YoutubeViewText(d, viewText) ==
    IF Truthy(viewText)
    THEN PutOr(d, "views", parseAbbreviatedNumber(CountText(viewText.s)))
    ELSE d

\* topLevelButtons?.find(b => b.segmentedLikeDislikeButtonRenderer || b.toggleButtonRenderer)
FirstLikeButton(buttons) ==
    LET I == IF buttons.t = "array"
             THEN {i \in 1..Len(buttons.items) :
                      \/ Truthy(Prop(buttons.items[i], "segmentedLikeDislikeButtonRenderer"))
                      \/ Truthy(Prop(buttons.items[i], "toggleButtonRenderer"))}
             ELSE {}
    IN  IF I = {} THEN Undefined ELSE buttons.items[Least(I)]

LabelPath == <<"toggleButtonRenderer", "defaultText", "accessibility", "accessibilityData", "label">>

\* Lines 276-277: the label of the like button.
LikeLabel(likeButton) ==
    OrElse(Path(likeButton, <<"segmentedLikeDislikeButtonRenderer", "likeButton">> \o LabelPath),
           Path(likeButton, LabelPath))

\* Lines 275-284: the likes from the like button.
YoutubeLikeButton(d, likeButton) ==
    PutIf(d, /\ Truthy(likeButton)
             /\ Truthy(LikeLabel(likeButton))
             /\ CountToken(LikeLabel(likeButton).s) # Undefined,
          "likes", parseAbbreviatedNumber(DropChars(CountToken(LikeLabel(likeButton).s).s, {","})))

\* Lines 262-285 on the primary info of a video page.
YoutubePrimaryInfo(d, primaryInfo) ==
    IF ~Truthy(primaryInfo) THEN d
    ELSE LET p1 == PutOr(d, "title", Path(primaryInfo, <<"title", "runs", "0", "text">>))
             p2 == YoutubeViewText(p1, Path(primaryInfo, <<"viewCount", "videoViewCountRenderer",
                                                          "viewCount", "simpleText">>))
         IN  YoutubeLikeButton(p2, FirstLikeButton(Path(primaryInfo, <<"videoActions", "menuRenderer",
                                                                     "topLevelButtons">>)))

\* Lines 298-301 and 326-329: the subscriber count.
YoutubeSubscribers(d, subText) ==
    PutIf(d, Truthy(subText), "subscribers", parseAbbreviatedNumber(CountText(subText.s)))

\* owner.badges?.some(b => b.metadataBadgeRenderer?.style?.includes('VERIFIED')) || false
HasVerifiedBadge(badges) ==
    /\ badges.t = "array"
    /\ \E i \in 1..Len(badges.items) :
          LET style == Path(badges.items[i], <<"metadataBadgeRenderer", "style">>)
          IN  style.t = "string" /\ Includes(style.s, "VERIFIED")

\* Lines 295-307 on the owner of the secondary info.
YoutubeOwner(d, owner) ==
    IF ~Truthy(owner) THEN d
    ELSE LET s1 == PutOr(d, "channelName", Path(owner, <<"title", "runs", "0", "text">>))
             s2 == YoutubeSubscribers(s1, Path(owner, <<"subscriberCountText", "simpleText">>))
         IN  Put(s2, "isVerified", Bool(HasVerifiedBadge(Prop(owner, "badges"))))

\* Lines 314-319 on the comment count of the comments section.
YoutubeCommentCount(d, commentCount) ==
    PutIf(d, Truthy(commentCount), "comments", parseAbbreviatedNumber(CountText(commentCount.s)))

\* Lines 322-338 on the header of a channel page.
YoutubeChannelHeader(d, header) ==
    IF ~Truthy(header) THEN d
    ELSE YoutubeSubscribers(PutOr(d, "channelName", Prop(header, "title")),
                            Path(header, <<"subscriberCountText", "simpleText">>))

\* Lines 341-346 on the channel metadata.
YoutubeChannelMetadata(d, cm) ==
    IF ~Truthy(cm) THEN d
    ELSE LET c1 == PutOr(d, "channelName", Prop(cm, "title"))
             c2 == PutOr(c1, "description", Prop(cm, "description"))
         IN  PutOr(c2, "channelId", Prop(cm, "externalId"))

CommentsPath == <<"itemSectionRenderer", "contents", "0", "commentsEntryPointHeaderRenderer">>

\* The body of the try block of lines 254-346 on the parsed page data.
YoutubeInitialData(d, ytData) ==
    LET afterPrimary ==
            YoutubePrimaryInfo(d, Prop(Find(WatchContents(ytData), "videoPrimaryInfoRenderer"),
                                       "videoPrimaryInfoRenderer"))
        afterOwner ==
            YoutubeOwner(afterPrimary,
                         Path(Find(WatchContents(ytData), "videoSecondaryInfoRenderer"),
                              <<"videoSecondaryInfoRenderer", "owner", "videoOwnerRenderer">>))
        afterComments ==
            YoutubeCommentCount(afterOwner,
                                Path(FindPath(WatchContents(ytData), CommentsPath),
                                     CommentsPath \o <<"commentCount", "simpleText">>))
        afterHeader ==
            YoutubeChannelHeader(afterComments,
                                 OrElse(Path(ytData, <<"header", "c4TabbedHeaderRenderer">>),
                                        Path(ytData, <<"header", "pageHeaderRenderer">>)))
    IN  YoutubeChannelMetadata(afterHeader, Path(ytData, <<"metadata", "channelMetadataRenderer">>))


youtubeCommentPatterns == <<"commentCount string", "commentCount simpleText">>

youtubeStages ==
    <<"url", "short", "json-ld", "player", "initial-data", "meta", "likes", "comments",
      "description-limit">>

\* The length limit of the description, line 387.
MaxDescription == 500

YoutubeStage(stage, html, url, d) ==
    CASE stage = "url" ->
            IF VideoIdOf(url) # Undefined
            THEN Put(Put(d, "videoId", VideoIdOf(url)), "thumbnailUrl",
                     Str("https://i.ytimg.com/vi/" \o VideoIdOf(url).s \o "/maxresdefault.jpg"))
            ELSE d
      [] stage = "short" ->
            PutIf(d, Includes(url, "/shorts/"), "isShort", Bool(TRUE))
      [] stage = "json-ld" ->
            YoutubeJsonLd(d, extractJsonLd(html), 1)
      [] stage = "player" ->
            IF HasKey(html.json, "ytInitialPlayerResponse")
            THEN YoutubePlayer(d, Lookup(html.json, "ytInitialPlayerResponse"))
            ELSE d
      [] stage = "initial-data" ->
            IF HasKey(html.json, "ytInitialData")
            THEN YoutubeInitialData(d, Lookup(html.json, "ytInitialData"))
            ELSE d
      [] stage = "meta" ->
            LET d1 == PutIf(d, ~Truthy(Lookup(d, "title")), "title",
                            OrElse(MetaTag(html, "og:title"), MetaTag(html, "twitter:title")))
                d2 == PutIf(d1, ~Truthy(Lookup(d1, "description")), "description",
                            OrElse(MetaTag(html, "og:description"), MetaTag(html, "twitter:description")))
            IN  PutIf(d2, ~Truthy(Lookup(d2, "thumbnailUrl")), "thumbnailUrl",
                      OrElse(MetaTag(html, "og:image"), MetaTag(html, "twitter:image")))
      [] stage = "likes" ->
            PutIf(d, ~Truthy(Lookup(d, "likes")) /\ Test(html, "label N likes"), "likes",
                  parseAbbreviatedNumber(DropChars(Capture(html, "label N likes").s, {","})))
      [] stage = "comments" ->
            LET i == FirstMatch(html, youtubeCommentPatterns)
            IN  PutIf(d, ~Truthy(Lookup(d, "comments")) /\ i # 0, "comments",
                      parseAbbreviatedNumber(DropChars(Capture(html, youtubeCommentPatterns[i]).s, {","})))
      [] stage = "description-limit" ->
            LET description == Lookup(d, "description")
            IN  PutIf(d, /\ Truthy(description)
                         /\ description.t = "string"
                         /\ Len(description.s) > MaxDescription,
                      "description", Str(SubSeq(description.s, 1, MaxDescription) \o "..."))

\* A stage of youtubeRecipe.extract throws.  The two embedded-JSON stages run
\* inside try blocks with empty catch clauses.
YoutubeStageThrows(stage, html, url, d) ==
    /\ stage = "json-ld"
    /\ \E i \in 1..Len(extractJsonLd(html)) : YoutubeJsonLdItemThrows(extractJsonLd(html)[i])

(***************************************************************************)
(* twitterRecipe.extract.                                                  *)
(***************************************************************************)

\* title.match(/^(.+?)\s+on\s+(?:X|Twitter):/i)?.[1]: the shortest non-empty
\* prefix that white space, "on", white space and "X:" or "Twitter:" follow.
TweetAuthorOf(title) ==
    LET After(j) == j + Run(title, j, Whitespace)
        OnAt(j) == /\ Run(title, j, Whitespace) >= 1
                   /\ MatchAtCI(title, After(j), "on")
                   /\ Run(title, After(j) + 2, Whitespace) >= 1
                   /\ \/ MatchAtCI(title, After(After(j) + 2), "X:")
                      \/ MatchAtCI(title, After(After(j) + 2), "Twitter:")
        J == {j \in 2..Len(title) : OnAt(j)}
    IN  IF J = {} THEN Undefined ELSE Str(SubSeq(title, 1, Least(J) - 1))

\* url.match(/(?:twitter\.com|x\.com)\/([^/]+)\/status/i)?.[1]
HandleOf(url) ==
    LET prefixes == {"twitter.com/", "x.com/"}
        NameEnd(j) == Least({k \in j..(Len(url) + 1) : CharAt(url, k) \in {"/", ""}})
        I == {j \in 1..Len(url) : /\ \E p \in prefixes : j > Len(p) /\ MatchAtCI(url, j - Len(p), p)
                                  /\ NameEnd(j) > j
                                  /\ MatchAtCI(url, NameEnd(j), "/status")}
    IN  IF I = {} THEN Undefined ELSE Str(SubSeq(url, Least(I), NameEnd(Least(I)) - 1))

\* The same body with the text of the embedded object replacing the text of
\* the meta tag.
TwitterTweetJson_TextReplaced(d, tweetData) ==
    LET result == OrElse(Path(tweetData, <<"result", "legacy">>), Prop(tweetData, "result"))
        d1 == Put(d, "text", Prop(result, "full_text"))
        d2 == Put(d1, "likes", Prop(result, "favorite_count"))
        d3 == Put(d2, "retweets", Prop(result, "retweet_count"))
        d4 == Put(d3, "replies", Prop(result, "reply_count"))
        d5 == Put(d4, "quotes", Prop(result, "quote_count"))
        d6 == Put(d5, "bookmarks", Prop(result, "bookmark_count"))
    IN  IF Truthy(result) THEN Put(d6, "postedAt", Prop(result, "created_at")) ELSE d

\* The body of the try block of lines 325-336 on the parsed tweet_results.
TwitterTweetJson(d, tweetData) ==
    LET result == OrElse(Path(tweetData, <<"result", "legacy">>), Prop(tweetData, "result"))
        d1 == Put(d, "text", OrElse(Lookup(d, "text"), Prop(result, "full_text")))
        d2 == Put(d1, "likes", Prop(result, "favorite_count"))
        d3 == Put(d2, "retweets", Prop(result, "retweet_count"))
        d4 == Put(d3, "replies", Prop(result, "reply_count"))
        d5 == Put(d4, "quotes", Prop(result, "quote_count"))
        d6 == Put(d5, "bookmarks", Prop(result, "bookmark_count"))
    IN  IF Truthy(result) THEN Put(d6, "postedAt", Prop(result, "created_at")) ELSE d

twitterStages ==
    <<"meta-text", "meta-author", "url", "tweet-json", "likes", "retweets", "replies", "views",
      "verified">>

TwitterStage(stage, html, url, d) ==
    CASE stage = "meta-text" ->
            PutIf(d, Truthy(MetaTag(html, "og:description")),
                  "text", Str(decodeHtmlEntities(MetaTag(html, "og:description").s)))
      [] stage = "meta-author" ->
            PutIf(d, /\ Truthy(MetaTag(html, "og:title"))
                     /\ TweetAuthorOf(MetaTag(html, "og:title").s) # Undefined,
                  "author", TweetAuthorOf(MetaTag(html, "og:title").s))
      [] stage = "url" ->
            PutIf(d, HandleOf(url) # Undefined, "authorHandle", Str("@" \o HandleOf(url).s))
      [] stage = "tweet-json" ->
            IF HasKey(html.json, "tweet_results")
            THEN TwitterTweetJson(d, Lookup(html.json, "tweet_results"))
            ELSE d
      [] stage = "likes" ->
            PutIf(d, Test(html, "N likes") /\ ~Truthy(Lookup(d, "likes")),
                  "likes", parseAbbreviatedNumber(Capture(html, "N likes").s))
      [] stage = "retweets" ->
            PutIf(d, Test(html, "N retweets") /\ ~Truthy(Lookup(d, "retweets")),
                  "retweets", parseAbbreviatedNumber(Capture(html, "N retweets").s))
      [] stage = "replies" ->
            PutIf(d, Test(html, "N replies") /\ ~Truthy(Lookup(d, "replies")),
                  "replies", parseAbbreviatedNumber(Capture(html, "N replies").s))
      [] stage = "views" ->
            PutIf(d, Test(html, "N views"), "views", parseAbbreviatedNumber(Capture(html, "N views").s))
      [] stage = "verified" ->
            Put(d, "isVerified",
                Bool(Test(html, "aria-label=Verified account") \/ Test(html, "verified-badge")))


(***************************************************************************)
(* genericRecipe.extract (recipes/generic.ts).                             *)
(***************************************************************************)

\* extractPageTitle
extractPageTitle(html) ==
    IF Test(html, "title") THEN Str(decodeHtmlEntities(Trim(Capture(html, "title").s)))
    ELSE Undefined

\* cleanText (helpers.ts): runs of white space become one space, then trim.
RECURSIVE CollapseSpace(_)
CollapseSpace(s) ==
    IF s = "" THEN ""
    ELSE IF CharAt(s, 1) \in Whitespace
    THEN " " \o CollapseSpace(From(s, 1 + Run(s, 1, Whitespace)))
    ELSE CharAt(s, 1) \o CollapseSpace(From(s, 2))

cleanText(text) == Trim(CollapseSpace(text))

\* The length limit of the main content, line 175.
MaxContent == 5000

\* extractMainContent: the text left of the main content area once the tags
\* are stripped is the capture "main content".
extractMainContent(html) ==
    LET content == cleanText(IF Test(html, "main content") THEN Capture(html, "main content").s ELSE "")
        limited == IF Len(content) > MaxContent THEN SubSeq(content, 1, MaxContent) \o "..."
                   ELSE content
    IN  IF limited = "" THEN Undefined ELSE Str(limited)

\* s.split(/\s+/).filter(Boolean).length
RECURSIVE WordCount(_)
WordCount(s) ==
    IF s = "" THEN 0
    ELSE IF CharAt(s, 1) \in Whitespace THEN WordCount(From(s, 2))
    ELSE 1 + WordCount(From(s, 1 + Run(s, 1, {CharAt(s, k) : k \in 1..Len(s)} \ Whitespace)))

\* One pass of the JSON-LD loop, lines 98-113, on item ld.
GenericJsonLdItem(d, ld) ==
    LET type == Prop(ld, "@type")
        a1 == Put(d, "title", OrElse(Lookup(d, "title"), Prop(ld, "headline")))
        a2 == Put(a1, "description", OrElse(Lookup(a1, "description"), Prop(ld, "description")))
        a3 == Put(a2, "author", OrElse(Lookup(a2, "author"), Path(ld, <<"author", "name">>)))
        a4 == Put(a3, "publishedDate", Prop(ld, "datePublished"))
        a5 == Put(a4, "modifiedDate", Prop(ld, "dateModified"))
        afterArticle == IF type \in {Str("Article"), Str("NewsArticle")} THEN a5 ELSE d
        p1 == Put(afterArticle, "title", OrElse(Lookup(afterArticle, "title"), Prop(ld, "name")))
        p2 == Put(p1, "description", OrElse(Lookup(p1, "description"), Prop(ld, "description")))
        offers == Prop(ld, "offers")
        availability == Prop(offers, "availability")
        p3 == Put(p2, "price", parseFloat(Prop(offers, "price")))
        p4 == Put(p3, "currency", Prop(offers, "priceCurrency"))
        p5 == Put(p4, "inStock", IF Nullish(availability) THEN Undefined
                                 ELSE Bool(Includes(availability.s, "InStock")))
    IN  IF type # Str("Product") THEN afterArticle
        ELSE IF Truthy(offers) THEN p5 ELSE p2

\* A pass of the loop throws: ld is null.
GenericJsonLdItemThrows(ld) == Nullish(ld)

RECURSIVE GenericJsonLd(_, _, _)
GenericJsonLd(d, lds, i) ==
    IF i > Len(lds) THEN d ELSE GenericJsonLd(GenericJsonLdItem(d, lds[i]), lds, i + 1)

\* The clean-up loop, lines 124-128: the keys whose value is undefined go.
RECURSIVE DeleteUndefined(_)
DeleteUndefined(d) ==
    IF d = <<>> THEN <<>>
    ELSE (IF Head(d)[2] = Undefined THEN <<>> ELSE <<Head(d)>>) \o DeleteUndefined(Tail(d))

genericStages == <<"meta", "json-ld", "main-content", "cleanup">>

GenericStage(stage, html, url, d) ==
    CASE stage = "meta" ->
            LET d1 == Put(d, "title",
                          OrElse(OrElse(OrElse(MetaTag(html, "og:title"), MetaTag(html, "twitter:title")),
                                        MetaTag(html, "title")),
                                 extractPageTitle(html)))
                d2 == Put(d1, "description",
                          OrElse(OrElse(MetaTag(html, "og:description"), MetaTag(html, "twitter:description")),
                                 MetaTag(html, "description")))
            IN  Put(d2, "author",
                    OrElse(OrElse(MetaTag(html, "author"), MetaTag(html, "article:author")),
                           MetaTag(html, "og:article:author")))
      [] stage = "json-ld" ->
            GenericJsonLd(d, extractJsonLd(html), 1)
      [] stage = "main-content" ->
            LET mainContent == extractMainContent(html)
            IN  IF Truthy(mainContent)
                THEN Put(Put(d, "mainContent", mainContent),
                         "wordCount", Num(100 * WordCount(mainContent.s)))
                ELSE d
      [] stage = "cleanup" -> DeleteUndefined(d)

\* A stage of genericRecipe.extract throws.
GenericStageThrows(stage, html, url, d) ==
    /\ stage = "json-ld"
    /\ \E i \in 1..Len(extractJsonLd(html)) : GenericJsonLdItemThrows(extractJsonLd(html)[i])


(***************************************************************************)
(* The extract routines by recipe.                                         *)
(***************************************************************************)

ExtractRecipes == {"amazon", "ebay", "youtube", "twitter", "generic"}

Stages(slug) ==
    CASE slug = "amazon" -> amazonStages
      [] slug = "ebay" -> ebayStages
      [] slug = "youtube" -> youtubeStages
      [] slug = "twitter" -> twitterStages
      [] slug = "generic" -> genericStages

Stage(slug, stage, html, url, d) ==
    CASE slug = "amazon" -> AmazonStage(stage, html, url, d)
      [] slug = "ebay" -> EbayStage(stage, html, url, d)
      [] slug = "youtube" -> YoutubeStage(stage, html, url, d)
      [] slug = "twitter" -> TwitterStage(stage, html, url, d)
      [] slug = "generic" -> GenericStage(stage, html, url, d)

StageThrows(slug, stage, html, url, d) ==
    CASE slug = "amazon" -> AmazonStageThrows(stage, html, url, d)
      [] slug = "ebay" -> EbayStageThrows(stage, html, url, d)
      [] slug = "youtube" -> YoutubeStageThrows(stage, html, url, d)
      [] slug = "twitter" -> FALSE
      [] slug = "generic" -> GenericStageThrows(stage, html, url, d)

\* The position of a stage in its routine.
StageIndex(slug, stage) == CHOOSE i \in 1..Len(Stages(slug)) : Stages(slug)[i] = stage

(***************************************************************************)
(* Payloads and URLs handed to the extract routines.  A payload is the     *)
(* empty document with a few features added in document order; a feature   *)
(* is a sequence of additions to the document.                             *)
(***************************************************************************)

\* Bound: the number of features of one payload.
MaxFeatures == 2

EmptyHtml == [scripts |-> <<>>, meta |-> <<>>, spans |-> <<>>, json |-> <<>>]

Script(value) == [add |-> "script", value |-> value]

Meta(name, content) == [add |-> "meta", name |-> name, content |-> content]

Span(pattern, text) == [add |-> "span", pattern |-> pattern, text |-> text]

Json(name, value) == [add |-> "json", name |-> name, value |-> value]

AddToHtml(html, a) ==
    CASE a.add = "script" -> [html EXCEPT !.scripts = Append(@, a.value)]
      [] a.add = "meta" -> [html EXCEPT !.meta = Put(@, a.name, Str(a.content))]
      [] a.add = "span" -> [html EXCEPT !.spans = Put(@, a.pattern, Str(a.text))]
      [] a.add = "json" -> [html EXCEPT !.json = Put(@, a.name, a.value)]

RECURSIVE AddFeature(_, _, _)
AddFeature(html, feature, i) ==
    IF i > Len(feature) THEN html ELSE AddFeature(AddToHtml(html, feature[i]), feature, i + 1)

\* The document with the features of index set I, in the order of the list.
RECURSIVE BuildHtml(_, _, _, _)
BuildHtml(html, features, I, i) ==
    IF i > Len(features) THEN html
    ELSE BuildHtml(IF i \in I THEN AddFeature(html, features[i], 1) ELSE html, features, I, i + 1)

Payloads(features) ==
    {BuildHtml(EmptyHtml, features, I, 1) : I \in SubsetsUpTo(1..Len(features), MaxFeatures)}

InStockUrl == Str("https://schema.org/InStock")

OutOfStockUrl == Str("https://schema.org/OutOfStock")

Product(entries) == Obj(<< <<"@type", Str("Product")>> >> \o entries)

amazonFeatures ==
    << <<Script(Product(<< <<"name", Str("Echo Dot")>>,
                           <<"description", Str("Smart speaker")>>,
                           <<"brand", Obj(<< <<"name", Str("Amazon")>> >>)>>,
                           <<"image", Arr(<<Str("https://img.example/a.jpg")>>)>>,
                           <<"offers", Obj(<< <<"price", Str("29.99")>>,
                                              <<"availability", InStockUrl>> >>)>>,
                           <<"aggregateRating", Obj(<< <<"ratingValue", Str("4.5")>>,
                                                       <<"reviewCount", Str("1200")>> >>)>> >>))>>,
       <<Script(Product(<< <<"name", Str("Free sample")>>,
                           <<"offers", Obj(<< <<"price", Str("0.00")>>,
                                              <<"availability", OutOfStockUrl>> >>)>> >>))>>,
       <<Script(Arr(<<Obj(<< <<"@type", Str("Organization")>>, <<"name", Str("Shop")>> >>),
                      Product(<< <<"brand", Str("Acme")>>,
                                 <<"image", Str("https://img.example/b.jpg")>>,
                                 <<"offers", Arr(<<Obj(<< <<"price", Num(2999)>> >>)>>)>> >>)>>))>>,
       <<Script(Invalid)>>,
       <<Script(Null)>>,
       <<Meta("og:title", "OG title")>>,
       <<Meta("twitter:title", "Twitter title")>>,
       <<Span("span#productTitle", "  Tom &amp; Jerry  ")>>,
       <<Span("span.a-price-whole", "1,299"), Span("span.a-price-fraction", "50")>>,
       <<Span("span.a-offscreen", "$19.99")>>,
       <<Span("span#priceblock_ourprice", "N/A"), Span("span#priceblock_dealprice", "$24.99")>>,
       <<Span("span.a-color-success", " In Stock ")>>,
       <<Span("currently unavailable", "")>>,
       <<Span("span.a-icon-alt", "4.2"), Span("span#acrCustomerReviewText", "1,234")>>,
       <<Span("a#bylineInfo", "Visit the Acme Store"), Span("img#landingImage", "https://img.example/l.jpg")>>,
       <<Span("span.a-text-price", "$39.99"), Span("span.savingsPercentage", "25%"),
         Span("Ships from and sold by", " Acme &amp; Co "), Span("prime", ""), Span("deal badge", ""),
         Span("Save N with coupon", "5"), Span("#N in", "1,234"), Span("#N in category", "Electronics "),
         Span("delivery day", " Monday, May 5 ")>> >>

amazonUrls == {"https://www.amazon.com/dp/B08N5WRWNW", "https://www.amazon.com/gp/help"}

ebayFeatures ==
    << <<Script(Product(<< <<"name", Str("iPhone 12")>>,
                           <<"brand", Str("Apple")>>,
                           <<"description", Str("A phone")>>,
                           <<"image", Arr(<<Str("https://img.example/e.jpg")>>)>>,
                           <<"offers", Obj(<< <<"price", Str("29.99")>>,
                                              <<"priceCurrency", Str("USD")>>,
                                              <<"availability", InStockUrl>>,
                                              <<"itemCondition", Str("https://schema.org/UsedCondition")>> >>)>> >>))>>,
       <<Script(Product(<< <<"name", Str("Free sample")>>,
                           <<"offers", Obj(<< <<"price", Str("0.00")>>,
                                              <<"priceCurrency", Str("USD")>> >>)>> >>))>>,
       <<Script(Product(<< <<"name", Str("Unpriced")>> >>))>>,
       <<Script(Invalid), Script(Arr(<<Null>>))>>,
       <<Meta("og:title", "OG title"), Meta("og:image", "https://img.example/og.jpg")>>,
       <<Span("h1.x-item-title span", " iPhone &amp; case ")>>,
       <<Span("span.x-price-primary span", "19.99")>>,
       <<Span("span.ux-textspans--BOLD", "0"), Span("span#prcIsum", "24.99")>>,
       <<Span("N bids", "5"), Span("Current bid:", "12.50"), Span("span.ux-timer", " 2d 3h "),
         Span("data-end-time", "2030-01-01T00:00:00Z")>>,
       <<Span("a.mbg-id", "seller_1"), Span("N% positive", "99.5"), Span("(N) feedback", "1,234"),
         Span("N available", "3"), Span("N sold", "10"), Span("N watchers", "7")>>,
       <<Span("free shipping", ""), Span("free returns", ""), Span("N days returns", "30"),
         Span("Located in:", " Austin, TX ")>>,
       <<Span("Condition:", "Pre-owned"), Span("Brand:", " Samsung "), Span("Was:", "39.99"),
         Span("N% off", "20%"), Span("Buy It Now", ""), Span("$N shipping", "4.99")>> >>

ebayUrls == {"https://www.ebay.com/itm/123456", "https://www.ebay.com/itm/phone-case/123456"}


\* {k: v}
One(k, v) == Obj(<< <<k, v>> >>)

\* {runs: [{text}]} and {simpleText: text}
Runs(text) == One("runs", Arr(<<One("text", Str(text))>>))

SimpleText(text) == One("simpleText", Str(text))

\* A ytInitialData object with the given items of the watch page contents.
WatchPage(items) ==
    One("contents", One("twoColumnWatchNextResults", One("results", One("results",
        One("contents", Arr(items))))))

LikeButton(label) ==
    One("segmentedLikeDislikeButtonRenderer", One("likeButton", One("toggleButtonRenderer",
        One("defaultText", One("accessibility", One("accessibilityData", One("label", Str(label))))))))

youtubeFeatures ==
    << <<Script(Obj(<< <<"@type", Str("VideoObject")>>,
                       <<"name", Str("Never Gonna Give You Up")>>,
                       <<"description", Str("Official video")>>,
                       <<"duration", Str("PT3M33S")>>,
                       <<"uploadDate", Str("2009-10-25")>>,
                       <<"thumbnailUrl", Arr(<<Str("https://i.ytimg.com/ld.jpg")>>)>>,
                       <<"interactionStatistic",
                         Arr(<<Obj(<< <<"interactionType", Str("https://schema.org/WatchAction")>>,
                                      <<"userInteractionCount", Str("1000")>> >>),
                               Obj(<< <<"interactionType", Str("https://schema.org/LikeAction")>>,
                                      <<"userInteractionCount", Str("50")>> >>)>>)>> >>))>>,
       <<Script(Obj(<< <<"@type", Str("VideoObject")>>, <<"name", Str("Second")>> >>))>>,
       <<Script(Obj(<< <<"@type", Str("VideoObject")>>,
                       <<"interactionStatistic",
                         Obj(<< <<"interactionType", One("@type", Str("WatchAction"))>>,
                                <<"userInteractionCount", Num(100000)>> >>)>> >>))>>,
       <<Json("ytInitialPlayerResponse",
              Obj(<< <<"videoDetails",
                       Obj(<< <<"title", Str("Player title")>>,
                              <<"author", Str("Rick Astley")>>,
                              <<"channelId", Str("UC1")>>,
                              <<"videoId", Str("XXXXXXXXXXX")>>,
                              <<"viewCount", Str("2000")>>,
                              <<"shortDescription", Str("Short description")>>,
                              <<"lengthSeconds", Str("213")>>,
                              <<"isLiveContent", Bool(FALSE)>>,
                              <<"keywords", Arr(<<Str("rick"), Str("roll")>>)>> >>)>>,
                     <<"microformat",
                       One("playerMicroformatRenderer",
                           Obj(<< <<"category", Str("Music")>>,
                                  <<"publishDate", Str("2009-10-24")>>,
                                  <<"thumbnail",
                                    One("thumbnails", Arr(<<One("url", Str("https://i.ytimg.com/mf.jpg"))>>))>> >>))>> >>))>>,
       <<Json("ytInitialData",
              WatchPage(<<One("videoPrimaryInfoRenderer",
                              Obj(<< <<"title", Runs("Page title")>>,
                                     <<"viewCount",
                                       One("videoViewCountRenderer", One("viewCount", SimpleText("3,000 views")))>>,
                                     <<"videoActions",
                                       One("menuRenderer", One("topLevelButtons",
                                           Arr(<<LikeButton("like this video along with 1.2K other people")>>)))>> >>)),
                          One("videoSecondaryInfoRenderer",
                              One("owner", One("videoOwnerRenderer",
                                  Obj(<< <<"title", Runs("Owner")>>,
                                         <<"subscriberCountText", SimpleText("1.5M")>>,
                                         <<"badges", Arr(<<One("metadataBadgeRenderer",
                                                              One("style", Str("BADGE_STYLE_TYPE_VERIFIED")))>>)>> >>)))),
                          One("itemSectionRenderer",
                              One("contents", Arr(<<One("commentsEntryPointHeaderRenderer",
                                                        One("commentCount", SimpleText("12")))>>)))>>))>>,
       <<Json("ytInitialData",
              Obj(<< <<"header", One("c4TabbedHeaderRenderer",
                                     Obj(<< <<"title", Str("Channel")>>,
                                            <<"subscriberCountText", SimpleText("2K")>> >>))>>,
                     <<"metadata", One("channelMetadataRenderer",
                                       Obj(<< <<"title", Str("Channel meta")>>,
                                              <<"description", Str("About the channel")>>,
                                              <<"externalId", Str("UC2")>> >>))>> >>))>>,
       <<Meta("og:title", "OG title"), Meta("og:image", "https://i.ytimg.com/og.jpg"),
         Meta("og:description", RepeatStr("d", MaxDescription + 1))>>,
       <<Span("label N likes", "1,234"), Span("commentCount simpleText", "56")>> >>

youtubeUrls ==
    {"https://www.youtube.com/watch?v=dQw4w9WgXcQ", "https://www.youtube.com/shorts/abcdefghijk",
     "https://www.youtube.com/@channel"}

twitterFeatures ==
    << <<Meta("og:description", "Hello &amp; world")>>,
       <<Meta("og:title", "OpenAI on X: Hello")>>,
       <<Json("tweet_results",
              One("result", One("legacy",
                  Obj(<< <<"full_text", Str("Full text")>>,
                         <<"favorite_count", Num(0)>>,
                         <<"retweet_count", Num(700)>>,
                         <<"reply_count", Num(300)>>,
                         <<"quote_count", Num(100)>>,
                         <<"bookmark_count", Num(200)>>,
                         <<"created_at", Str("Wed Dec 18 2024")>>,
                         <<"screen_name", Str("someone_else")>> >>))))>>,
       <<Json("tweet_results", One("result", One("full_text", Str("Bare result"))))>>,
       <<Span("N likes", "1.2K")>>,
       <<Span("N retweets", "300"), Span("N replies", "12")>>,
       <<Span("N views", "1.5M"), Span("verified-badge", "")>> >>

twitterUrls == {"https://x.com/OpenAI/status/1869449598739587438", "https://twitter.com/home"}

genericFeatures ==
    << <<Meta("og:title", "OG title"), Meta("description", "A page")>>,
       <<Span("title", " Page &amp; title ")>>,
       <<Meta("author", "Jane")>>,
       <<Script(Obj(<< <<"@type", Str("Article")>>,
                       <<"headline", Str("Headline")>>,
                       <<"author", One("name", Str("John"))>>,
                       <<"datePublished", Str("2024-01-01")>> >>))>>,
       <<Script(Product(<< <<"name", Str("Widget")>>,
                           <<"offers", One("price", Str("9.99"))>> >>))>>,
       <<Script(Null)>>,
       <<Span("main content", "  Hello   brave new\n world  ")>> >>

genericUrls == {"https://example.com/page"}

Features(slug) ==
    CASE slug = "amazon" -> amazonFeatures
      [] slug = "ebay" -> ebayFeatures
      [] slug = "youtube" -> youtubeFeatures
      [] slug = "twitter" -> twitterFeatures
      [] slug = "generic" -> genericFeatures

ExtractUrls(slug) ==
    CASE slug = "amazon" -> amazonUrls
      [] slug = "ebay" -> ebayUrls
      [] slug = "youtube" -> youtubeUrls
      [] slug = "twitter" -> twitterUrls
      [] slug = "generic" -> genericUrls

(***************************************************************************)
(* Specification SpecExtract: calls of recipe.extract(html, url), one      *)
(* stage at a step; `data` is the map under construction and `pc` the      *)
(* stage that runs next.                                                   *)
(***************************************************************************)

\* The calls of recipe.extract(html, url).
ExtractCalls ==
    UNION {{[op |-> "extract", recipe |-> slug, html |-> html, url |-> url] :
               url \in ExtractUrls(slug), html \in Payloads(Features(slug))} : slug \in ExtractRecipes}

ExtractCall ==
    /\ pc = "idle"
    /\ \E c \in ExtractCalls :
          /\ call' = c
          /\ pc' = Stages(c.recipe)[1]
    /\ data' = <<>>
    /\ ret' = <<>>

\* The stage `pc` runs.  A throw ends the call; the last stage is followed by
\* `return data`.
ExtractStage ==
    /\ call.op = "extract"
    /\ pc \notin {"idle", "returned"}
    /\ LET slug == call.recipe
           i == StageIndex(slug, pc)
       IN  IF StageThrows(slug, pc, call.html, call.url, data)
           THEN /\ pc' = "returned"
                /\ ret' = <<Throws(TypeError)>>
                /\ data' = data
           ELSE /\ data' = Stage(slug, pc, call.html, call.url, data)
                /\ IF i = Len(Stages(slug))
                   THEN pc' = "returned" /\ ret' = <<Returns(Obj(data'))>>
                   ELSE pc' = Stages(slug)[i + 1] /\ ret' = ret
    /\ UNCHANGED call

NextExtract == ExtractCall \/ ExtractStage \/ Return

SpecExtract == Init /\ [][NextExtract]_vars

(***************************************************************************)
(* Properties of the extract routines.                                     *)
(***************************************************************************)

\* An extract call is between two of its stages.
InExtract == call.op = "extract" /\ pc \notin {"idle", "returned"}

\* An extract call has returned a map (it did not throw).
ExtractReturned ==
    /\ call.op = "extract"
    /\ pc = "returned"
    /\ ret[1].kind = "return"

\* The entries of the returned map.
Returned == ret[1].value.entries

\* C3 (as claimed): the stages of an extract routine are strictly additive:
\* a field that holds a value (any value but undefined, 0 and false included)
\* when a stage starts holds the same value when that stage ends.
C3_StagesAreAdditive ==
    [][InExtract =>
          \A i \in 1..Len(data) :
             data[i][2] # Undefined => Lookup(data', data[i][1]) = data[i][2]]_vars

\* The price stages of a routine that match patterns of the page.
PatternPriceStages(slug) ==
    IF slug = "amazon" THEN <<"price-parts", "price-patterns">> ELSE <<"price-patterns">>

RECURSIVE RunStages(_, _, _, _, _)
RunStages(slug, stages, html, url, d) ==
    IF stages = <<>> THEN d
    ELSE RunStages(slug, Tail(stages), html, url, Stage(slug, Head(stages), html, url, d))

\* The price the structured-data stage finds in a payload, and the price the
\* pattern stages find in it, each run on its own.
StructuredPrice(slug, html, url) == Lookup(Stage(slug, "json-ld", html, url, <<>>), "price")

PatternPrice(slug, html, url) ==
    Lookup(RunStages(slug, PatternPriceStages(slug), html, url, <<>>), "price")

\* C4 (as claimed): when amazon's or ebay's extract returns for a payload with
\* a structured price p and a different pattern-matched price q, the price of
\* the returned map is p.
C4_StructuredPriceWins ==
    (ExtractReturned /\ call.recipe \in {"amazon", "ebay"}) =>
        LET p == StructuredPrice(call.recipe, call.html, call.url)
            q == PatternPrice(call.recipe, call.html, call.url)
        IN  (p.t = "number" /\ q.t = "number" /\ p # q) => Lookup(Returned, "price") = p

\* The routines that derive a field from the URL, and the stages that read
\* nothing but the URL.
UrlRecipes == {"amazon", "ebay", "youtube", "twitter"}

UrlStages == {"url", "short"}

\* The fields the URL alone gives: what the URL stage writes into an empty map
\* for an empty payload.
UrlFields(slug, url) == Stage(slug, "url", EmptyHtml, url, <<>>)

\* The map holds every URL-derived field with its URL-derived value.
\* Map d holds every entry of fields.
Holds(d, fields) == \A i \in 1..Len(fields) : Lookup(d, fields[i][1]) = fields[i][2]

HoldsUrlFields(d) == Holds(d, UrlFields(call.recipe, call.url))

\* The stages that have run in the current call, in order.
StagesRun ==
    IF pc = "returned" THEN Stages(call.recipe)
    ELSE SubSeq(Stages(call.recipe), 1, StageIndex(call.recipe, pc) - 1)

C6_NoUndefinedValues ==
    ExtractReturned => \A i \in 1..Len(Returned) : Returned[i][2] # Undefined

\* The JSON-LD loop of a routine on the objects lds, from the map d.
JsonLdLoop(slug, d, lds) ==
    CASE slug = "amazon" -> AmazonJsonLd(d, lds, 1)
      [] slug = "ebay" -> EbayJsonLd(d, lds, 1)
      [] slug = "generic" -> GenericJsonLd(d, lds, 1)

\* The routines whose JSON-LD loop the claim names.
JsonLdRecipes == {"amazon", "ebay", "generic"}

\* The JSON-LD stage of one of these routines runs and does not throw.
JsonLdStageRuns ==
    /\ call.op = "extract"
    /\ call.recipe \in JsonLdRecipes
    /\ pc = "json-ld"
    /\ ~StageThrows(call.recipe, pc, call.html, call.url, data)

\* Map after holds every value that the first k objects of lds have set.
KeepsEarlierValues(slug, before, lds, k, after) ==
    \A i \in 1..Len(JsonLdLoop(slug, before, SubSeq(lds, 1, k))) :
        (/\ JsonLdLoop(slug, before, SubSeq(lds, 1, k))[i][2] # Undefined
         /\ JsonLdLoop(slug, before, SubSeq(lds, 1, k))[i][2]
                # Lookup(before, JsonLdLoop(slug, before, SubSeq(lds, 1, k))[i][1]))
            => Lookup(after, JsonLdLoop(slug, before, SubSeq(lds, 1, k))[i][1])
                   = JsonLdLoop(slug, before, SubSeq(lds, 1, k))[i][2]

\* C22 (as claimed): when the JSON-LD loop of amazon, ebay or generic runs over
\* several objects, every field that the first k objects have set holds, when
\* the loop ends, the value those objects gave it: a later object only fills
\* the fields that are still absent.
C22_LaterObjectsOnlyFillGaps ==
    [][JsonLdStageRuns =>
          \A k \in 1..(Len(extractJsonLd(call.html)) - 1) :
              KeepsEarlierValues(call.recipe, data, extractJsonLd(call.html), k, data')]_vars

\* The routines that read the meta tags before the embedded structured
\* object, the fields both stages write, and the two stages.
MetaFirstRecipes == {"generic", "twitter"}

SharedFields(slug) == IF slug = "generic" THEN {"title", "description", "author"} ELSE {"text"}

MetaStageOf(slug) == IF slug = "generic" THEN "meta" ELSE "meta-text"

StructuredStageOf(slug) == IF slug = "generic" THEN "json-ld" ELSE "tweet-json"

\* The value a stage gives a field of the payload when it runs on its own.
StageValue(slug, stage, html, url, field) == Lookup(Stage(slug, stage, html, url, <<>>), field)

\* The routines that read the structured object before the meta tags.
StructuredFirstRecipes == {"amazon", "ebay", "youtube"}

C24_ExtractNeverThrows ==
    (call.op = "extract" /\ pc = "returned") =>
        /\ ret[1].kind = "return"
        /\ ret[1].value.t = "object"

(***************************************************************************)
(* Specification SpecCatalog: a catalog of site-specific recipes followed  *)
(* by the fallback is checked by validateAllRecipes, and then an example   *)
(* URL of one of its recipes is resolved by first-match dispatch over the  *)
(* site-specific recipes.                                                  *)
(***************************************************************************)

\* The site-specific recipes of the catalogs: two eBay recipes, two Amazon
\* recipes (one with an example that its pattern does not accept), two
\* recipes with a predicate, and an eBay recipe that carries the slug 'generic'.
SiteRecipes ==
    {WellFormedRecipe("alpha", ebayMatch, ExEbayAmazon),
     WellFormedRecipe("beta", amazonMatch, ExAmazon),
     WellFormedRecipe("delta", ebayMatch, ExEbay),
     WellFormedRecipe("epsilon", amazonMatch, ExEbay),
     WellFormedRecipe("gamma", [kind |-> "function", of |-> "generic"], ExEbay),
     WellFormedRecipe("eta", [kind |-> "function", of |-> "none"], ExOther),
     WellFormedRecipe("generic", ebayMatch, ExEbay)}

Catalogs == SeqsUpTo(SiteRecipes, MaxRecipes)

\* validateAllRecipes([...rs, genericRecipe])
CheckCatalog ==
    /\ pc = "idle"
    /\ \E rs \in Catalogs :
          /\ call' = [op |-> "validateAllRecipes", recipes |-> Append(rs, genericRecipe)]
          /\ ret' = <<validateAllRecipes(Append(rs, genericRecipe))>>
    /\ pc' = "validated"
    /\ UNCHANGED data

\* The site-specific recipes of the checked catalog.
Registry == SubSeq(call.recipes, 1, Len(call.recipes) - 1)

\* getRecipeForUrl(u) over the checked catalog, u an example of its recipe i.
DispatchExample ==
    /\ pc = "validated"
    /\ \E i \in 1..Len(Registry) :
          \E k \in 1..Len(Registry[i].meta.richExamples) :
              /\ call' = [op |-> "getRecipeForUrl", recipes |-> call.recipes, owner |-> i,
                          url |-> Registry[i].meta.richExamples[k].url]
              /\ ret' = Append(ret, getRecipeForUrl(Registry, Registry[i].meta.richExamples[k].url))
    /\ pc' = "returned"
    /\ UNCHANGED data

\* The check of a catalog without recipes is followed by no dispatch.
CatalogDone ==
    /\ pc = "validated"
    /\ Registry = <<>>
    /\ pc' = "returned"
    /\ UNCHANGED <<call, ret, data>>

NextCatalog == CheckCatalog \/ DispatchExample \/ CatalogDone \/ Return

SpecCatalog == Init /\ [][NextCatalog]_vars

\* An example of recipe `owner` of a checked catalog has been dispatched; every
\* site-specific recipe of the catalog passes validateRecipe and the check of
\* the catalog gave no overlap warning.
IsOverlapWarning(w) == w.field = "match" /\ StartsWith(w.message, "Example \"")

QuietCatalogDispatched ==
    /\ pc = "returned"
    /\ call.op = "getRecipeForUrl"
    /\ ret[1].kind = "return"
    /\ \A i \in 1..Len(Registry) : validateRecipe(Registry[i]).valid
    /\ \A n \in 1..Len(ret[1].value.warnings) : ~IsOverlapWarning(ret[1].value.warnings[n])

\* C29 (as claimed): when every site-specific recipe of a catalog passes
\* validateRecipe and validateAllRecipes reports no overlap warning, first-match
\* dispatch resolves every example URL of a recipe of the catalog to that
\* recipe.
C29_QuietCatalogDispatchesToOwner ==
    QuietCatalogDispatched => ret[2] = Registry[call.owner]

\* C29 (amended): under the same conditions, and when no site-specific recipe
\* carries the slug 'generic', no recipe registered after r accepts an example
\* URL of r, and dispatch resolves the URL to r or to a recipe registered
\* before r.
C29_QuietCatalogNeverDispatchesLater ==
    (QuietCatalogDispatched /\ \A i \in 1..Len(Registry) : ~IsGenericSlug(Registry[i])) =>
        /\ \A j \in (call.owner + 1)..Len(Registry) : ~MatchAccepts(Registry[j], call.url)
        /\ \E j \in 1..call.owner : ret[2] = Registry[j]

\* C29 witness: an example of the second of two recipes was dispatched in a
\* catalog that passes the checks, and the first recipe captured it.
C29_Witness_CapturedByEarlier ==
    /\ QuietCatalogDispatched
    /\ Len(Registry) = 2
    /\ call.owner = 2
    /\ ret[2] = Registry[1]
    /\ Registry[1] # Registry[2]

(***************************************************************************)
(* Specification SpecHelpers: the normalisation helpers of helpers.ts,     *)
(* each called on texts built from a few tokens.                           *)
(***************************************************************************)

\* Bound: the number of tokens of a text handed to a helper.
MaxTokens == 3

\* The texts of at most n tokens.
RECURSIVE TextsUpTo(_, _)
TextsUpTo(tokens, n) ==
    IF n = 0 THEN {""}
    ELSE LET shorter == TextsUpTo(tokens, n - 1)
         IN  shorter \cup {t \o k : t \in shorter, k \in tokens}

RECURSIVE Concat(_, _)
Concat(toks, i) == IF i > Len(toks) THEN "" ELSE toks[i] \o Concat(toks, i + 1)

\* s with the n characters from position i on replaced by r.
ReplaceAt(s, i, n, r) == SubSeq(s, 1, i - 1) \o r \o From(s, i + n)

\* The positions of s at which the text sub stands.
PositionsOfText(s, sub) == {i \in 1..Len(s) : MatchAt(s, i, sub)}

\* s.replace(sub, r) for a string pattern: the first occurrence only.
ReplaceFirstText(s, sub, r) ==
    IF PositionsOfText(s, sub) = {} THEN s
    ELSE ReplaceAt(s, Least(PositionsOfText(s, sub)), Len(sub), r)

\* extractDomain (helpers.ts): the host name without its first 'www.', and ''
\* when new URL throws.
extractDomain(url) ==
    IF UrlParses(url) THEN ReplaceFirstText(ToLowerCase(url.sub \o url.host), "www.", "")
    ELSE ""

PriceTokens == {"$", "1", "5", ",", ".", "a"}

\* The arguments of parsePrice: texts, the texts of the README, undefined, null.
PriceArgs ==
    {Str(t) : t \in TextsUpTo(PriceTokens, MaxTokens) \cup {"$1,234.56", "1,234.56", "$19.99"}}
        \cup {Undefined, Null}

AbbreviationTokens == {"1", "2", ".", ",", "k", "M", "b", " ", "x"}

\* Decimal numbers as they are written, with their values in hundredths.
Decimals ==
    {[text |-> "1.2", hundredths |-> 120], [text |-> "2", hundredths |-> 200],
     [text |-> "45.6", hundredths |-> 4560], [text |-> "0.5", hundredths |-> 50],
     [text |-> ".5", hundredths |-> 50], [text |-> "12.25", hundredths |-> 1225],
     [text |-> "999", hundredths |-> 99900]}

Suffixes == {"k", "K", "m", "M", "b", "B"}

Paddings == {"", " "}

\* A decimal number followed by a suffix, with white space around it.
AbbreviatedText(pad, d, suffix) == pad \o d.text \o suffix \o pad

AbbreviatedTexts ==
    TextsUpTo(AbbreviationTokens, MaxTokens)
        \cup {AbbreviatedText(pad, d, sfx) : pad \in Paddings, d \in Decimals, sfx \in Suffixes}

EntityTokens == {"&amp;", "&lt;", "&gt;", "&quot;", "&nbsp;", "&#39;", "&#65;", "&copy;",
                 "&", "amp;", "lt;", "#39;", "a"}

SpaceTokens == {"a", "b", " ", "\t", "\n"}

DomainUrls ==
    {ExEbay, ExAmazon, ExOther, ExNotAUrl,
     WebUrl("", "GitHub.com", <<"a">>), WebUrl("www.", "www.example.com", <<>>),
     WebUrl("", "awww.example.com", <<>>)}

ParsePrice ==
    /\ pc = "idle"
    /\ \E v \in PriceArgs :
          /\ call' = [op |-> "parsePrice", arg |-> v]
          /\ ret' = <<Returns(parsePrice(v))>>
    /\ pc' = "returned"
    /\ UNCHANGED data

ParseAbbreviatedNumber ==
    /\ pc = "idle"
    /\ \E str \in AbbreviatedTexts :
          /\ call' = [op |-> "parseAbbreviatedNumber", arg |-> Str(str)]
          /\ ret' = <<Returns(parseAbbreviatedNumber(str))>>
    /\ pc' = "returned"
    /\ UNCHANGED data

DecodeHtmlEntities ==
    /\ pc = "idle"
    /\ \E toks \in SeqsUpTo(EntityTokens, MaxTokens) :
          /\ call' = [op |-> "decodeHtmlEntities", arg |-> Str(Concat(toks, 1)), tokens |-> toks]
          /\ ret' = <<Returns(Str(decodeHtmlEntities(Concat(toks, 1))))>>
    /\ pc' = "returned"
    /\ UNCHANGED data

CleanText ==
    /\ pc = "idle"
    /\ \E text \in TextsUpTo(SpaceTokens, MaxTokens) :
          /\ call' = [op |-> "cleanText", arg |-> Str(text)]
          /\ ret' = <<Returns(Str(cleanText(text)))>>
    /\ pc' = "returned"
    /\ UNCHANGED data

ExtractDomain ==
    /\ pc = "idle"
    /\ \E url \in DomainUrls :
          /\ call' = [op |-> "extractDomain", arg |-> url]
          /\ ret' = <<Returns(Str(extractDomain(url)))>>
    /\ pc' = "returned"
    /\ UNCHANGED data

NextHelpers ==
    ParsePrice \/ ParseAbbreviatedNumber \/ DecodeHtmlEntities \/ CleanText \/ ExtractDomain
        \/ Return

SpecHelpers == Init /\ [][NextHelpers]_vars

\* Helper `op` has ended.
HelperDone(op) == pc = "returned" /\ call.op = op

\* C16: parsePrice("$1,234.56") and parsePrice("1,234.56") both return 1234.56.
C16_ThousandsSeparator ==
    (HelperDone("parsePrice") /\ call.arg \in {Str("$1,234.56"), Str("1,234.56")}) =>
        ret[1] = Returns(Num(123456))

\* The factor a suffix stands for.
FactorOf(suffix) ==
    CASE suffix \in {"k", "K"} -> 1000
      [] suffix \in {"m", "M"} -> 1000000
      [] suffix \in {"b", "B"} -> 1000000000

\* Number v is h hundredths times factor.
IsProduct(v, h, factor) ==
    /\ v.t = "number"
    /\ IF "unit" \in DOMAIN v
       THEN v.n % (factor \div 100000) = 0 /\ v.n \div (factor \div 100000) = h
       ELSE v.n % factor = 0 /\ v.n \div factor = h

PlainTokens == {"amp;", "lt;", "#39;", "a"}

WholeEntities == {"&amp;", "&lt;", "&gt;", "&quot;", "&nbsp;", "&#39;", "&#65;", "&copy;"}

\* What one token of the text is replaced by: the named entities &amp; &lt;
\* &gt; &quot; &nbsp; and the numeric entities by their characters, anything
\* else by itself.
Replacement(tok) ==
    CASE tok = "&amp;" -> "&"
      [] tok = "&lt;" -> "<"
      [] tok = "&gt;" -> ">"
      [] tok = "&quot;" -> "\""
      [] tok = "&nbsp;" -> " "
      [] tok = "&#39;" -> "'"
      [] tok = "&#65;" -> "A"
      [] OTHER -> tok

RECURSIVE Replacements(_, _)
Replacements(toks, i) ==
    IF i > Len(toks) THEN "" ELSE Replacement(toks[i]) \o Replacements(toks, i + 1)

HelperOps ==
    {"parsePrice", "parseAbbreviatedNumber", "decodeHtmlEntities", "cleanText", "extractDomain"}

\* C19: every call of parsePrice, parseAbbreviatedNumber, decodeHtmlEntities,
\* cleanText and extractDomain returns, and what it returns is never NaN:
\* parsePrice returns a number or undefined, parseAbbreviatedNumber a number
\* (0 for a text without a number), the other three a string.
C19_HelpersAreTotal ==
    (pc = "returned" /\ call.op \in HelperOps) =>
        /\ ret[1].kind = "return"
        /\ ret[1].value # NaN
        /\ call.op = "parsePrice" => ret[1].value.t \in {"number", "undefined"}
        /\ call.op = "parseAbbreviatedNumber" => ret[1].value.t = "number"
        /\ call.op \in {"decodeHtmlEntities", "cleanText", "extractDomain"}
              => ret[1].value.t = "string"

\* The host name of a URL that parses: lower case.
Hostname(url) == ToLowerCase(url.sub \o url.host)

\* C28: extractDomain returns the host name without a leading "www.", the
\* host name itself when it does not begin with "www." (also when "www."
\* stands elsewhere in it), and '' for a text that is no URL.
C28_LeadingWwwOnly ==
    HelperDone("extractDomain") =>
        ret[1] = Returns(Str(IF ~UrlParses(call.arg) THEN ""
                             ELSE IF StartsWith(Hostname(call.arg), "www.")
                             THEN From(Hostname(call.arg), 5)
                             ELSE Hostname(call.arg)))

(***************************************************************************)
(* Specification SpecExtractAll: extractAll(html, regex) of helpers.ts,    *)
(* one call of globalRegex.exec at a step.  A regex is an opening literal,  *)
(* a capture group that is a greedy run of the characters of a class (at   *)
(* least `min` of them) and a closing literal; `data` holds the lastIndex   *)
(* of globalRegex, the results pushed so far and the number of exec calls.  *)
(***************************************************************************)

\* Bound: the number of exec calls of one extractAll call that are followed.
MaxIterations == 6

\* /<([a ]+)/, /(a*)/ and /<([a ]*)>/
RegexSources ==
    {[open |-> "<", class |-> {"a", " "}, min |-> 1, close |-> ""],
     [open |-> "", class |-> {"a"}, min |-> 0, close |-> ""],
     [open |-> "<", class |-> {"a", " "}, min |-> 0, close |-> ">"]}

\* The caller's regex objects: a source, the flags and the lastIndex a global
\* regex has been left with by an earlier use.
Regexes ==
    {[source |-> src, flags |-> fl, lastIndex |-> li] :
        src \in RegexSources, fl \in {"", "g"}, li \in {0, 1}}

HtmlTokens == {"a", " ", "<", ">"}

\* The greatest element of a non-empty set of numbers.
Greatest(I) == CHOOSE i \in I : \A k \in I : i >= k

\* The lengths of the runs of class characters from position j on that the
\* closing literal follows.
GroupLengths(src, html, j) ==
    {n \in src.min..Run(html, j, src.class) : MatchAt(html, j + n, src.close)}

\* The position after the match of src that starts at position i of html (the
\* greedy one), and 0 when no match starts there.
MatchEnd(src, html, i) ==
    IF MatchAt(html, i, src.open) /\ GroupLengths(src, html, i + Len(src.open)) # {}
    THEN i + Len(src.open) + Greatest(GroupLengths(src, html, i + Len(src.open))) + Len(src.close)
    ELSE 0

\* The positions at or after lastIndex (counted from 0) where a match starts.
MatchStarts(src, html, lastIndex) ==
    {i \in (lastIndex + 1)..(Len(html) + 1) : MatchEnd(src, html, i) # 0}

\* The match that starts at position i: its capture group and the lastIndex
\* that exec leaves, the end of the match.
MatchFrom(src, html, i) ==
    [group |-> SubSeq(html, i + Len(src.open), MatchEnd(src, html, i) - Len(src.close) - 1),
     lastIndex |-> MatchEnd(src, html, i) - 1]

\* RegExp.prototype.exec of a global regex: the first match at or after
\* lastIndex, and Null (with lastIndex reset to 0) when there is none.  The
\* lastIndex after an empty match is the lastIndex before it.
RegExpExec(src, html, lastIndex) ==
    IF MatchStarts(src, html, lastIndex) = {} THEN Null
    ELSE MatchFrom(src, html, Least(MatchStarts(src, html, lastIndex)))

\* Lines 82-83: the results are empty and globalRegex is a new object, with
\* lastIndex 0 whatever the caller's regex holds.
ExtractAllCall ==
    /\ pc = "idle"
    /\ \E html \in TextsUpTo(HtmlTokens, MaxTokens), regex \in Regexes :
          call' = [op |-> "extractAll", html |-> html, regex |-> regex]
    /\ data' = [lastIndex |-> 0, results |-> <<>>, iterations |-> 0]
    /\ ret' = <<>>
    /\ pc' = "exec"

\* The results after the loop body, lines 85-87, for match.
Pushed(results, match) ==
    IF match.group # "" THEN Append(results, Trim(match.group)) ELSE results

\* One evaluation of the loop condition and, for a match, of the loop body.
ExtractAllExec ==
    /\ pc = "exec"
    /\ data.iterations < MaxIterations
    /\ IF RegExpExec(call.regex.source, call.html, data.lastIndex) = Null
       THEN /\ data' = [data EXCEPT !.lastIndex = 0, !.iterations = @ + 1]
            /\ ret' = <<Returns(data.results)>>
            /\ pc' = "returned"
       ELSE /\ data' = [lastIndex |-> RegExpExec(call.regex.source, call.html, data.lastIndex).lastIndex,
                        results |-> Pushed(data.results,
                                           RegExpExec(call.regex.source, call.html, data.lastIndex)),
                        iterations |-> data.iterations + 1]
            /\ ret' = ret
            /\ pc' = pc
    /\ UNCHANGED call

NextExtractAll == ExtractAllCall \/ ExtractAllExec \/ Return

SpecExtractAll == Init /\ [][NextExtractAll]_vars

\* C30 (as claimed): extractAll terminates for every html and every regex, a
\* regex whose match can be empty included: a call never evaluates exec more
\* often than html has characters, plus once for the null that ends the loop,
\* and the caller's regex is as it was.
C30_ExtractAllTerminates ==
    call.op = "extractAll" =>
        /\ data.iterations <= Len(call.html) + 1
        /\ call.regex \in Regexes

(***************************************************************************)
(* Specification SpecConcurrent: several callers use the registry, the     *)
(* validator and the extract routines at the same time.  `pc`, `call` and   *)
(* `ret` hold one entry for each caller; `data` holds what the callers      *)
(* share: the lastIndex of the `match` RegExp of each recipe and the heap   *)
(* of the maps that extract calls create.  A step is a whole synchronous    *)
(* call or one stage of an extract routine; the code runs the stages of a   *)
(* call without yielding, so these interleavings include every one the      *)
(* runtime produces.                                                       *)
(***************************************************************************)

\* Bound: the number of callers.
NumCallers == 2

Callers == 1..NumCallers

\* The patterns as they would be with the g flag.
RegExpFlags_Global(slug) == "gi"

\* The flags of the `match` pattern of the bundled recipes: each is /.../i.
RegExpFlags(slug) == "i"

\* RegExp.prototype.test on text u of a pattern whose lastIndex is lastIndex:
\* the result and the lastIndex it leaves.  Without the g flag test neither
\* reads nor writes lastIndex.  With it the search starts at lastIndex, a match
\* leaves lastIndex at its end (1 stands for an end past the start of u) and a
\* failure leaves 0; the bundled URL patterns find nothing past their first
\* match.
RegExpTestAt(slug, u, lastIndex) ==
    IF Includes(RegExpFlags(slug), "g")
    THEN IF lastIndex = 0 /\ RegExpTest(slug, u)
         THEN [result |-> TRUE, lastIndex |-> 1]
         ELSE [result |-> FALSE, lastIndex |-> 0]
    ELSE [result |-> RegExpTest(slug, u), lastIndex |-> lastIndex]

\* The loop of getRecipeForUrl from recipe i on, the lastIndex of the patterns
\* being li: the recipe returned and the lastIndex values left.
RECURSIVE ScanWithState(_, _, _, _)
ScanWithState(rs, u, i, li) ==
    IF i > Len(rs) THEN [recipe |-> genericRecipe, lastIndex |-> li]
    ELSE IF rs[i].match.kind = "RegExp"
    THEN IF RegExpTestAt(rs[i].match.of, u, li[rs[i].match.of]).result
         THEN [recipe |-> rs[i],
               lastIndex |-> [li EXCEPT ![rs[i].match.of] =
                                 RegExpTestAt(rs[i].match.of, u, li[rs[i].match.of]).lastIndex]]
         ELSE ScanWithState(rs, u, i + 1,
                            [li EXCEPT ![rs[i].match.of] =
                                RegExpTestAt(rs[i].match.of, u, li[rs[i].match.of]).lastIndex])
    ELSE IF CallMatch(rs[i].match.of, u) THEN [recipe |-> rs[i], lastIndex |-> li]
    ELSE ScanWithState(rs, u, i + 1, li)

\* The tests of example URLs against RegExp patterns that a validation makes,
\* in order, as <<pattern, url>> pairs: those of validateRecipe (lines
\* 306-311) from example k on, and those of the overlap loop of
\* validateAllRecipes (lines 372-376).
RECURSIVE ExampleTests(_, _, _)
ExampleTests(examples, pattern, k) ==
    IF k > Len(examples) THEN <<>>
    ELSE <<<<pattern.of, examples[k].url>>>> \o ExampleTests(examples, pattern, k + 1)

RecipeTests(r) ==
    IF r.match.kind = "RegExp" THEN ExampleTests(r.meta.richExamples, r.match, 1) ELSE <<>>

RECURSIVE PerRecipeTests(_, _)
PerRecipeTests(rs, i) ==
    IF i > Len(rs) THEN <<>> ELSE RecipeTests(rs[i]) \o PerRecipeTests(rs, i + 1)

\* The tests of the examples of rs[i] against the patterns of rs[j] and of the
\* recipes after it.
RECURSIVE PairTests(_, _, _)
PairTests(rs, i, j) ==
    IF j > Len(rs) THEN <<>>
    ELSE (IF IsGenericSlug(rs[i]) \/ IsGenericSlug(rs[j]) \/ rs[j].match.kind # "RegExp"
          THEN <<>>
          ELSE ExampleTests(rs[i].meta.richExamples, rs[j].match, 1))
         \o PairTests(rs, i, j + 1)

RECURSIVE OverlapTests(_, _)
OverlapTests(rs, i) ==
    IF i > Len(rs) THEN <<>> ELSE PairTests(rs, i, i + 1) \o OverlapTests(rs, i + 1)

\* The lastIndex values that one test leaves.
TestLeaves(li, test) ==
    [li EXCEPT ![test[1]] = RegExpTestAt(test[1], test[2], li[test[1]]).lastIndex]

\* The lastIndex values that tests a to b of a sequence leave.  (The
\* sequence is halved and the state between the halves is bound to a
\* variable, which keeps the evaluation of a long sequence shallow.)
RECURSIVE AfterTestsFromTo(_, _, _, _)
AfterTestsFromTo(li, tests, a, b) ==
    IF a > b THEN li
    ELSE IF a = b THEN TestLeaves(li, tests[a])
    ELSE CHOOSE after \in {AfterTestsFromTo(between, tests, (a + b) \div 2 + 1, b) :
                              between \in {AfterTestsFromTo(li, tests, a, (a + b) \div 2)}} : TRUE

AfterTests(li, tests) == AfterTestsFromTo(li, tests, 1, Len(tests))

\* The patterns of the registry.
PatternSlugs == {recipes[i].match.of : i \in 1..Len(recipes)}

\* The maps of the heap; a caller holds at most one.
MapIds == 1..NumCallers

FreeMap == [used |-> FALSE, entries |-> <<>>]

\* `const data: ExtractedData = {}`: an object that is none of the live ones.
NewMap(heap) == Least({id \in MapIds : ~heap[id].used})

\* What the callers hand to the calls.
ConcurrentUrls == {twitterRecipe.meta.richExamples[1].url, ExOther}

ConcurrentSlugs == {"generic", "unknown-recipe"}

ConcurrentRecipes == {amazonRecipe}

ConcurrentExtracts ==
    {[recipe |-> "generic", url |-> "https://example.com/page",
      html |-> BuildHtml(EmptyHtml, genericFeatures, {1, 4}, 1)],
     [recipe |-> "generic", url |-> "https://example.com/page",
      html |-> BuildHtml(EmptyHtml, genericFeatures, {6}, 1)],
     [recipe |-> "twitter", url |-> "https://x.com/OpenAI/status/1869449598739587438",
      html |-> BuildHtml(EmptyHtml, twitterFeatures, {1, 3}, 1)]}

InitConcurrent ==
    /\ pc = [c \in Callers |-> "idle"]
    /\ call = [c \in Callers |-> Idle]
    /\ ret = [c \in Callers |-> <<>>]
    /\ data = [lastIndex |-> [s \in PatternSlugs |-> 0], heap |-> [id \in MapIds |-> FreeMap]]

\* Caller c makes a synchronous call that returns completion.
Completes(c, theCall, completion) ==
    /\ pc[c] = "idle"
    /\ call' = [call EXCEPT ![c] = theCall]
    /\ ret' = [ret EXCEPT ![c] = <<completion>>]
    /\ pc' = [pc EXCEPT ![c] = "returned"]

CallGetRecipeForUrl(c) ==
    \E u \in ConcurrentUrls :
        /\ Completes(c, [op |-> "getRecipeForUrl", url |-> u],
                     Returns(ScanWithState(recipes, u, 1, data.lastIndex).recipe))
        /\ data' = [data EXCEPT !.lastIndex = ScanWithState(recipes, u, 1, data.lastIndex).lastIndex]

CallGetRecipeBySlug(c) ==
    \E slug \in ConcurrentSlugs :
        /\ Completes(c, [op |-> "getRecipeBySlug", slug |-> slug], Returns(getRecipeBySlug(slug)))
        /\ UNCHANGED data

CallValidateRecipe(c) ==
    \E recipe \in ConcurrentRecipes :
        /\ Completes(c, [op |-> "validateRecipe", recipe |-> recipe], Returns(validateRecipe(recipe)))
        /\ data' = [data EXCEPT !.lastIndex = AfterTests(@, RecipeTests(recipe))]

CallValidateAllRecipes(c) ==
    /\ Completes(c, [op |-> "validateAllRecipes", recipes |-> allRecipes],
                 validateAllRecipes(allRecipes))
    /\ data' = [data EXCEPT !.lastIndex =
                   AfterTests(@, PerRecipeTests(allRecipes, 1) \o OverlapTests(allRecipes, 1))]

\* recipe.extract(html, url) starts: the map is created.
CallExtract(c) ==
    /\ pc[c] = "idle"
    /\ \E x \in ConcurrentExtracts :
          /\ call' = [call EXCEPT ![c] = [op |-> "extract", recipe |-> x.recipe, html |-> x.html,
                                          url |-> x.url, map |-> NewMap(data.heap)]]
          /\ pc' = [pc EXCEPT ![c] = Stages(x.recipe)[1]]
    /\ data' = [data EXCEPT !.heap[NewMap(data.heap)] = [used |-> TRUE, entries |-> <<>>]]
    /\ UNCHANGED ret

\* A reference to a map of the heap.
Ref(id) == [t |-> "reference", id |-> id]

\* The stage pc[c] of the extract call of caller c runs on the call's map.
RunStage(c) ==
    /\ call[c].op = "extract"
    /\ pc[c] \notin {"idle", "returned"}
    /\ IF StageThrows(call[c].recipe, pc[c], call[c].html, call[c].url,
                      data.heap[call[c].map].entries)
       THEN /\ pc' = [pc EXCEPT ![c] = "returned"]
            /\ ret' = [ret EXCEPT ![c] = <<Throws(TypeError)>>]
            /\ data' = data
       ELSE /\ data' = [data EXCEPT !.heap[call[c].map].entries =
                           Stage(call[c].recipe, pc[c], call[c].html, call[c].url, @)]
            /\ IF StageIndex(call[c].recipe, pc[c]) = Len(Stages(call[c].recipe))
               THEN /\ pc' = [pc EXCEPT ![c] = "returned"]
                    /\ ret' = [ret EXCEPT ![c] = <<Returns(Ref(call[c].map))>>]
               ELSE /\ pc' = [pc EXCEPT ![c] =
                                 Stages(call[c].recipe)[StageIndex(call[c].recipe, pc[c]) + 1]]
                    /\ ret' = ret
    /\ UNCHANGED call

\* Caller c takes the result and drops it.
CallerReturns(c) ==
    /\ pc[c] = "returned"
    /\ data' = IF call[c].op = "extract"
               THEN [data EXCEPT !.heap[call[c].map] = FreeMap]
               ELSE data
    /\ call' = [call EXCEPT ![c] = Idle]
    /\ ret' = [ret EXCEPT ![c] = <<>>]
    /\ pc' = [pc EXCEPT ![c] = "idle"]

NextConcurrent ==
    \E c \in Callers :
        \/ CallGetRecipeForUrl(c)
        \/ CallGetRecipeBySlug(c)
        \/ CallValidateRecipe(c)
        \/ CallValidateAllRecipes(c)
        \/ CallExtract(c)
        \/ RunStage(c)
        \/ CallerReturns(c)

SpecConcurrent == InitConcurrent /\ [][NextConcurrent]_vars

\* The completion of recipe.extract(html, url) run alone, from stage i on.
RECURSIVE ExtractAlone(_, _, _, _, _)
ExtractAlone(slug, html, url, d, i) ==
    IF i > Len(Stages(slug)) THEN Returns(d)
    ELSE IF StageThrows(slug, Stages(slug)[i], html, url, d) THEN Throws(TypeError)
    ELSE ExtractAlone(slug, html, url, Stage(slug, Stages(slug)[i], html, url, d), i + 1)

\* The completion of a call when no other call runs.
Alone(theCall) ==
    CASE theCall.op = "getRecipeForUrl" -> Returns(getRecipeForUrl(recipes, theCall.url))
      [] theCall.op = "getRecipeBySlug" -> Returns(getRecipeBySlug(theCall.slug))
      [] theCall.op = "validateRecipe" -> Returns(validateRecipe(theCall.recipe))
      [] theCall.op = "validateAllRecipes" -> validateAllRecipes(theCall.recipes)
      [] theCall.op = "extract" ->
            ExtractAlone(theCall.recipe, theCall.html, theCall.url, <<>>, 1)

\* The completion caller c has got, a returned map given by its entries.
Got(c) ==
    IF call[c].op = "extract" /\ ret[c][1].kind = "return"
    THEN Returns(data.heap[ret[c][1].value.id].entries)
    ELSE ret[c][1]

\* The extract calls in progress or returned.
Extracting == {c \in Callers : call[c].op = "extract"}

\* C21: under every interleaving of the calls of several callers the lastIndex
\* of every `match` pattern of the registry stays 0, every call that has
\* returned has the completion it has when it runs alone, and the maps of two
\* extract calls are two objects.
C21_CallsDoNotInterfere ==
    /\ \A s \in PatternSlugs : data.lastIndex[s] = 0
    /\ \A c \in Callers : pc[c] = "returned" => Got(c) = Alone(call[c])
    /\ \A c1, c2 \in Extracting : c1 # c2 => call[c1].map # call[c2].map

\* C21 witness: the extract call of one caller has returned the map of the
\* tweet while the extract call of another caller is between two stages with
\* a map that holds entries, and both have what they have when run alone.
C21_Witness_TwoExtractsInFlight ==
    /\ pc[1] = "returned"
    /\ call[1].op = "extract"
    /\ call[1].recipe = "twitter"
    /\ Got(1) = Alone(call[1])
    /\ Lookup(Got(1).value, "text") = Str("Hello & world")
    /\ call[2].op = "extract"
    /\ call[2].recipe = "generic"
    /\ pc[2] = "main-content"
    /\ Lookup(data.heap[call[2].map].entries, "title") = Str("OG title")
    /\ call[1].map # call[2].map

====
